---- MODULE Spec2Model ----
(***************************************************************************)
(* Training-criterion nodes of CNTK (TrainingCriterionNodes.h): one        *)
(* criterion node with its attached inputs, its output ("function value"), *)
(* its upstream gradient, its scratch members and the minibatch layout     *)
(* (the Sequence Mask).  One action per node operation.                    *)
(*                                                                         *)
(* Numbers.  Tensor elements are integers.  The tensor engine (Matrix.h)   *)
(* is not part of the sources; its operations are modelled on the integer  *)
(* grid (exp is 2^x rounded down, log is log2 rounded down, the norm is    *)
(* the integer square root, division is floor division).  The CRF node     *)
(* works in the log semiring, which is modelled exactly: a score s is      *)
(* held as the weight exp(s), so LogAdd is + on weights, adding scores is  *)
(* * on weights, LZERO is the weight 0; a difference of scores is a        *)
(* fraction <<n, d>> in lowest terms.                                      *)
(***************************************************************************)
EXTENDS Integers, Sequences, FiniteSets, TLC

VARIABLES
    node,            \* OperationName() of the criterion node
    m_children,      \* Inputs(i): [OperationName, FunctionValues, GradientValues]
    FunctionValues,  \* the node's output tensor
    GradientValues,  \* the node's gradient tensor (upstream gradient, 1x1)
    m,               \* the node's own members (scratch tensors, flags, mode)
    m_pMBLayout,     \* minibatch layout: [nS, noLabel]
    build,           \* what the build fixes: [enumSigned, ndebug]
    fstream,         \* the model file: [bytes, pos]
    validated,       \* Validate() has succeeded
    calls,           \* number of forward/backward calls made so far
    last,            \* the last operation: [op, idx, err, ...]
    evaluated,       \* a forward pass of the node has completed
    GetDeviceId,     \* the device each matrix the node owns is on
    nodeP            \* the members of the node CopyTo() writes to

vars == <<node, m_children, FunctionValues, GradientValues, m, m_pMBLayout,
          build, fstream, validated, calls, last, evaluated, GetDeviceId, nodeP>>

(***************************************************************************)
(* Bounds of the model.                                                    *)
(***************************************************************************)
MaxCalls == 3
MaxIndex == 4
MaxSlots == 2
MaxLabels == 3
MaxLength == 4

(***************************************************************************)
(* Tensors: [rows, cols, v], v a function on (0..rows-1) \X (0..cols-1).   *)
(***************************************************************************)
Idx(r, c) == (0 .. (r - 1)) \X (0 .. (c - 1))

\* (v is built element by element: @@ yields the function as a table)
Mat(r, c, F(_, _)) == [rows |-> r, cols |-> c, v |-> [p \in Idx(r, c) |-> F(p[1], p[2])] @@ <<>>]

At(M, i, j) == M.v[<<i, j>>]

Fill(r, c, x) == Mat(r, c, LAMBDA i, j : x)

EmptyMat == Fill(0, 0, 0)

GetNumRows(M) == M.rows

GetNumCols(M) == M.cols

GetNumElements(M) == M.rows * M.cols

HasNoElements(M) == GetNumElements(M) = 0

Get00Element(M) == At(M, 0, 0)

\* Resize keeps a tensor of the requested shape and otherwise yields a
\* fresh (zeroed) one.
Resize(M, r, c) == IF M.rows = r /\ M.cols = c THEN M ELSE Fill(r, c, 0)

\* SetValue(scalar) writes every element and keeps the shape.
SetValueScalar(M, x) == Fill(M.rows, M.cols, x)

ColumnSlice(M, start, n) == Mat(M.rows, n, LAMBDA i, j : At(M, i, start + j))

\* A column slice is a view: writing the slice writes the columns of M.
WriteColumnSlice(M, start, S) ==
    Mat(M.rows, M.cols,
        LAMBDA i, j : IF j >= start /\ j < start + S.cols THEN At(S, i, j - start)
                      ELSE At(M, i, j))

RECURSIVE SumFn(_, _)
SumFn(f, S) == IF S = {} THEN 0
               ELSE LET x == CHOOSE y \in S : TRUE IN f[x] + SumFn(f, S \ {x})

SumOfElements(M) == SumFn(M.v, DOMAIN M.v)

Map1(M, F(_)) == Mat(M.rows, M.cols, LAMBDA i, j : F(At(M, i, j)))

Map2(A, B, F(_, _)) == Mat(A.rows, A.cols, LAMBDA i, j : F(At(A, i, j), At(B, i, j)))

(***************************************************************************)
(* Scalar functions of the engine on the integer grid.                     *)
(***************************************************************************)
Abs(x) == IF x < 0 THEN -x ELSE x

Sign(x) == IF x > 0 THEN 1 ELSE IF x < 0 THEN -1 ELSE 0

RECURSIVE Pow2(_)
Pow2(n) == IF n <= 0 THEN 1 ELSE 2 * Pow2(n - 1)

ExpOf(x) == IF x < 0 THEN 0 ELSE Pow2(x)

RECURSIVE Log2Floor(_)
Log2Floor(x) == IF x <= 1 THEN 0 ELSE 1 + Log2Floor(x \div 2)

LogOf(x) == Log2Floor(x)

RECURSIVE ISqrtFrom(_, _)
ISqrtFrom(x, r) == IF (r + 1) * (r + 1) > x THEN r ELSE ISqrtFrom(x, r + 1)

ISqrt(x) == ISqrtFrom(x, 0)

(***************************************************************************)
(* Tensor operations of the engine used by the criterion nodes.            *)
(***************************************************************************)
AssignDifferenceOf(A, B) == Map2(A, B, LAMBDA x, y : x - y)

AssignElementDivisionOf(A, B) == Map2(A, B, LAMBDA x, y : IF y = 0 THEN 0 ELSE x \div y)

AssignSignOf(A) == Map1(A, Sign)

InplaceExp(A) == Map1(A, ExpOf)

InplaceLog(A) == Map1(A, LogOf)

FrobeniusNorm(A) == ISqrt(SumOfElements(Map1(A, LAMBDA x : x * x)))

MatrixNorm1(A) == SumOfElements(Map1(A, Abs))

\* c.AddWithScaleOf(alpha, a): c += alpha * a
AddWithScaleOf(C, alpha, A) == Map2(C, A, LAMBDA c, a : c + alpha * a)

\* ScaleAndAdd(alpha, a, c): c = alpha * a + c
ScaleAndAdd(alpha, A, C) == Map2(C, A, LAMBDA c, a : alpha * a + c)

\* AddScaledDifference(alpha, a, b, c): c += alpha * (a - b), alpha a 1x1 tensor
AddScaledDifference(alpha, A, B, C) ==
    Mat(C.rows, C.cols,
        LAMBDA i, j : At(C, i, j) + Get00Element(alpha) * (At(A, i, j) - At(B, i, j)))

\* AssignInnerProductOfMatrices(a, b): the 1x1 tensor holding sum_ij a_ij * b_ij
AssignInnerProductOfMatrices(A, B) ==
    Fill(1, 1, SumOfElements(Map2(A, B, LAMBDA x, y : x * y)))

\* Log-soft-max of every column: x_ij - log(sum_i exp(x_ij))
ColLogSum(A, j) == LogOf(SumFn([i \in 0 .. (A.rows - 1) |-> ExpOf(At(A, i, j))], 0 .. (A.rows - 1)))

AssignLogSoftmaxOf(A) == Mat(A.rows, A.cols, LAMBDA i, j : At(A, i, j) - ColLogSum(A, j))

(***************************************************************************)
(* The Sequence Mask.  Column t of a tensor holds (time j, stream i) with  *)
(* t = j * nS + i; noLabel is the set of <<i, j>> flagged NoLabel.         *)
(***************************************************************************)
IsAllNone(layout) == layout.noLabel = {}

MaskedColumns(layout) == {p[2] * layout.nS + p[1] : p \in layout.noLabel}

\* ComputationNode::MaskToZeroWhenLabelAndFeatureMissing(matrix)
MaskToZeroWhenLabelAndFeatureMissing(s, M) ==
    Mat(M.rows, M.cols,
        LAMBDA i, j : IF j \in MaskedColumns(s.m_pMBLayout) THEN 0 ELSE At(M, i, j))

(***************************************************************************)
(* What every handler returns: the state it leaves, and whether it threw.  *)
(* (InvalidArgument, LogicError and RuntimeError throw; what the handler   *)
(* wrote before throwing stays written.)                                   *)
(***************************************************************************)
Inputs(s, i) == s.m_children[i]

NumInputs(s) == Cardinality(DOMAIN s.m_children)

Throw(r) == [r EXCEPT !.err = TRUE]

WithOutput(r, fv) == [r EXCEPT !.FunctionValues = fv]

WithMember(r, name, val) == [r EXCEPT !.m = [r.m EXCEPT ![name] = val]]

WithInputGradient(r, i, g) == [r EXCEPT !.m_children[i].GradientValues = g]

WithInputValue(r, i, x) == [r EXCEPT !.m_children[i].FunctionValues = x]

\* Shape inference for a LearnableParameter input (the two-input criteria):
\* a zero dimension is taken from the other input.
InferParameterDims(ch, index) ==
    IF ch[index].OperationName = "LearnableParameter"
    THEN LET own   == ch[index].FunctionValues
             other == ch[1 - index].FunctionValues
             rows  == IF GetNumRows(own) = 0 THEN GetNumRows(other) ELSE GetNumRows(own)
             cols  == IF GetNumCols(own) = 0 THEN GetNumCols(other) ELSE GetNumCols(own)
         IN [ch EXCEPT ![index].FunctionValues = Resize(own, rows, cols)]
    ELSE ch

\* The checks shared by the two-input criteria after shape inference.
TwoInputShapesOk(ch) ==
    /\ ~HasNoElements(ch[0].FunctionValues)
    /\ ~HasNoElements(ch[1].FunctionValues)
    /\ GetNumRows(ch[0].FunctionValues) = GetNumRows(ch[1].FunctionValues)
    /\ GetNumCols(ch[0].FunctionValues) = GetNumCols(ch[1].FunctionValues)

(***************************************************************************)
(* SquareErrorNode                                                         *)
(***************************************************************************)
\* A guard that lets index 2 through.
SquareError_NoPartial_Lax(inputIndex) == inputIndex > 2

SquareError_NoPartial(inputIndex) == inputIndex > 1

SquareError_ComputeInputPartial_ByLeft(s, inputIndex) ==
    IF SquareError_NoPartial(inputIndex) THEN Throw(s)
    ELSE IF inputIndex = 0
    THEN WithInputGradient(s, 0,
            AddWithScaleOf(Inputs(s, 0).GradientValues, Get00Element(s.GradientValues), Inputs(s, 0).FunctionValues))
    ELSE WithInputGradient(s, 1,
            AddWithScaleOf(Inputs(s, 1).GradientValues, -Get00Element(s.GradientValues), Inputs(s, 0).FunctionValues))

SquareError_ComputeInputPartial(s, inputIndex) ==
    IF SquareError_NoPartial(inputIndex) THEN Throw(s)
    ELSE IF inputIndex = 0
    THEN WithInputGradient(s, 0,
            AddWithScaleOf(Inputs(s, 0).GradientValues, Get00Element(s.GradientValues), s.m.m_leftMinusRight))
    ELSE WithInputGradient(s, 1,
            AddWithScaleOf(Inputs(s, 1).GradientValues, -Get00Element(s.GradientValues), s.m.m_leftMinusRight))

SquareError_EvaluateThisNode(s) ==
    LET leftMinusRight == MaskToZeroWhenLabelAndFeatureMissing(s, 
                              AssignDifferenceOf(Inputs(s, 0).FunctionValues, Inputs(s, 1).FunctionValues))
        v == FrobeniusNorm(leftMinusRight)
    IN WithOutput(WithMember(s, "m_leftMinusRight", leftMinusRight),
                  SetValueScalar(Resize(s.FunctionValues, 1, 1), (v * v) \div 2))

SquareError_Validate(s) ==
    IF NumInputs(s) # 2 THEN Throw(s)
    ELSE LET ch == InferParameterDims(InferParameterDims(s.m_children, 0), 1)
             r  == [s EXCEPT !.m_children = ch]
         IN IF ~TwoInputShapesOk(ch) THEN Throw(r)
            ELSE WithOutput(
                     WithMember(r, "m_leftMinusRight",
                         Resize(s.m.m_leftMinusRight, GetNumRows(ch[0].FunctionValues),
                                GetNumCols(ch[0].FunctionValues))),
                     Resize(s.FunctionValues, 1, 1))

(***************************************************************************)
(* CrossEntropyWithSoftmaxNode                                             *)
(***************************************************************************)
CrossEntropyWithSoftmax_NoPartial(inputIndex) == inputIndex > 1

CrossEntropyWithSoftmax_ComputeInputPartial_NoMask(s, inputIndex) ==
    IF CrossEntropyWithSoftmax_NoPartial(inputIndex) THEN Throw(s)
    ELSE IF inputIndex = 0
    THEN WithInputGradient(s, 0,
            ScaleAndAdd(-Get00Element(s.GradientValues), s.m.m_logSoftmaxOfRight, Inputs(s, 0).GradientValues))
    ELSE WithInputGradient(s, 1,
            AddScaledDifference(s.GradientValues, s.m.m_softmaxOfRight,
                                Inputs(s, 0).FunctionValues, Inputs(s, 1).GradientValues))

CrossEntropyWithSoftmax_ComputeInputPartial(s, inputIndex) ==
    IF CrossEntropyWithSoftmax_NoPartial(inputIndex) THEN Throw(s)
    ELSE IF inputIndex = 0
    THEN WithInputGradient(s, 0,
            ScaleAndAdd(-Get00Element(s.GradientValues), s.m.m_logSoftmaxOfRight, Inputs(s, 0).GradientValues))
    ELSE WithInputGradient(s, 1,
            MaskToZeroWhenLabelAndFeatureMissing(s, 
                AddScaledDifference(s.GradientValues, s.m.m_softmaxOfRight,
                                    Inputs(s, 0).FunctionValues, Inputs(s, 1).GradientValues)))

CrossEntropyWithSoftmax_EvaluateThisNode(s) ==
    LET logSoftmax == AssignLogSoftmaxOf(Inputs(s, 1).FunctionValues)
        softmax    == InplaceExp(logSoftmax)
        masked     == MaskToZeroWhenLabelAndFeatureMissing(s, logSoftmax)
        inner      == AssignInnerProductOfMatrices(Inputs(s, 0).FunctionValues, masked)
    IN WithOutput(
           WithMember(WithMember(s, "m_softmaxOfRight", softmax), "m_logSoftmaxOfRight", masked),
           Map1(inner, LAMBDA x : -x))

CrossEntropyWithSoftmax_Validate(s) ==
    IF NumInputs(s) # 2 THEN Throw(s)
    ELSE LET ch == InferParameterDims(InferParameterDims(s.m_children, 0), 1)
             r  == [s EXCEPT !.m_children = ch]
             nr == GetNumRows(ch[0].FunctionValues)
             nc == GetNumCols(ch[0].FunctionValues)
         IN IF ~TwoInputShapesOk(ch) THEN Throw(r)
            ELSE WithOutput(
                     WithMember(WithMember(r, "m_logSoftmaxOfRight", Resize(s.m.m_logSoftmaxOfRight, nr, nc)),
                                "m_softmaxOfRight", Resize(s.m.m_softmaxOfRight, nr, nc)),
                     Resize(s.FunctionValues, 1, 1))

(***************************************************************************)
(* CrossEntropyNode                                                        *)
(***************************************************************************)
CrossEntropy_NoPartial(inputIndex) == inputIndex > 1

CrossEntropy_ComputeInputPartial(s, inputIndex) ==
    IF CrossEntropy_NoPartial(inputIndex) THEN Throw(s)
    ELSE IF inputIndex = 0
    THEN WithInputGradient(s, 0,
            ScaleAndAdd(-Get00Element(s.GradientValues), s.m.m_logOfRight, Inputs(s, 0).GradientValues))
    ELSE LET leftDivRight == MaskToZeroWhenLabelAndFeatureMissing(s, 
                                 AssignElementDivisionOf(Inputs(s, 0).FunctionValues, Inputs(s, 1).FunctionValues))
         IN WithInputGradient(WithMember(s, "m_leftDivRight", leftDivRight), 1,
                ScaleAndAdd(-Get00Element(s.GradientValues), leftDivRight, Inputs(s, 1).GradientValues))

CrossEntropy_EvaluateThisNode(s) ==
    LET logOfRight == MaskToZeroWhenLabelAndFeatureMissing(s, InplaceLog(Inputs(s, 1).FunctionValues))
        inner      == AssignInnerProductOfMatrices(Inputs(s, 0).FunctionValues, logOfRight)
    IN WithOutput(WithMember(s, "m_logOfRight", logOfRight), Map1(inner, LAMBDA x : -x))

CrossEntropy_Validate_AnyFirst(s) ==
    IF NumInputs(s) # 2 THEN Throw(s)
    ELSE LET ch == InferParameterDims(InferParameterDims(s.m_children, 0), 1)
             r  == [s EXCEPT !.m_children = ch]
             nr == GetNumRows(ch[1].FunctionValues)
             nc == GetNumCols(ch[1].FunctionValues)
         IN IF ~TwoInputShapesOk(ch) THEN Throw(r)
            ELSE WithOutput(
                     WithMember(WithMember(r, "m_logOfRight", Resize(s.m.m_logOfRight, nr, nc)),
                                "m_leftDivRight", Resize(s.m.m_leftDivRight, nr, nc)),
                     Resize(s.FunctionValues, 1, 1))

CrossEntropy_Validate(s) ==
    IF NumInputs(s) # 2 THEN Throw(s)
    ELSE IF Inputs(s, 0).OperationName # "InputValue" THEN Throw(s)
    ELSE LET ch == InferParameterDims(InferParameterDims(s.m_children, 0), 1)
             r  == [s EXCEPT !.m_children = ch]
             nr == GetNumRows(ch[1].FunctionValues)
             nc == GetNumCols(ch[1].FunctionValues)
         IN IF ~TwoInputShapesOk(ch) THEN Throw(r)
            ELSE WithOutput(
                     WithMember(WithMember(r, "m_logOfRight", Resize(s.m.m_logOfRight, nr, nc)),
                                "m_leftDivRight", Resize(s.m.m_leftDivRight, nr, nc)),
                     Resize(s.FunctionValues, 1, 1))

(***************************************************************************)
(* MatrixL1RegNode and MatrixL2RegNode                                     *)
(***************************************************************************)
MatrixL1Reg_NoPartial(inputIndex) == inputIndex # 0

MatrixL1Reg_ComputeInputPartial(s, inputIndex) ==
    IF MatrixL1Reg_NoPartial(inputIndex) THEN Throw(s)
    ELSE LET gradientOfL1Norm == AssignSignOf(Inputs(s, 0).FunctionValues)
         IN WithInputGradient(WithMember(s, "m_gradientOfL1Norm", gradientOfL1Norm), 0,
                AddWithScaleOf(Inputs(s, 0).GradientValues, Get00Element(s.GradientValues), gradientOfL1Norm))

\* The mask is applied to the input's own function values, in place.
MatrixL1Reg_EvaluateThisNode(s) ==
    LET masked == MaskToZeroWhenLabelAndFeatureMissing(s, Inputs(s, 0).FunctionValues)
    IN WithOutput(WithInputValue(s, 0, masked),
                  SetValueScalar(Resize(s.FunctionValues, 1, 1), MatrixNorm1(masked)))

MatrixL1Reg_Validate(s) ==
    IF NumInputs(s) # 1 THEN Throw(s)
    ELSE IF HasNoElements(Inputs(s, 0).FunctionValues) THEN Throw(s)
    ELSE WithOutput(
             WithMember(s, "m_gradientOfL1Norm",
                 Resize(s.m.m_gradientOfL1Norm, GetNumRows(Inputs(s, 0).FunctionValues),
                        GetNumCols(Inputs(s, 0).FunctionValues))),
             Resize(s.FunctionValues, 1, 1))

MatrixL2Reg_NoPartial(inputIndex) == inputIndex # 0

\* 1 / EPS_IN_INVERSE on the integer grid: the quotient g / (0 + eps).
InverseOfEps == 1000

MatrixL2Reg_ComputeInputPartial(s, inputIndex) ==
    IF MatrixL2Reg_NoPartial(inputIndex) THEN Throw(s)
    ELSE LET norm == Get00Element(s.FunctionValues)
             v    == IF norm = 0 THEN Get00Element(s.GradientValues) * InverseOfEps
                     ELSE Get00Element(s.GradientValues) \div norm
         IN WithInputGradient(s, 0,
                AddWithScaleOf(Inputs(s, 0).GradientValues, v, Inputs(s, 0).FunctionValues))

MatrixL2Reg_EvaluateThisNode(s) ==
    LET masked == MaskToZeroWhenLabelAndFeatureMissing(s, Inputs(s, 0).FunctionValues)
    IN WithOutput(WithInputValue(s, 0, masked),
                  SetValueScalar(Resize(s.FunctionValues, 1, 1), FrobeniusNorm(masked)))

MatrixL2Reg_Validate(s) ==
    IF NumInputs(s) # 1 THEN Throw(s)
    ELSE IF HasNoElements(Inputs(s, 0).FunctionValues) THEN Throw(s)
    ELSE WithOutput(s, Resize(s.FunctionValues, 1, 1))

(***************************************************************************)
(* DummyCriterionNode                                                      *)
(***************************************************************************)
DummyCriterion_NoPartial(inputIndex) == inputIndex > 2 \/ inputIndex = 0 \/ inputIndex = 1

DummyCriterion_ComputeInputPartial_ByOwn(s, inputIndex) ==
    IF DummyCriterion_NoPartial(inputIndex) THEN Throw(s)
    ELSE WithInputGradient(s, inputIndex,
             ScaleAndAdd(Get00Element(s.GradientValues), Inputs(s, inputIndex).FunctionValues,
                         Inputs(s, inputIndex).GradientValues))

DummyCriterion_ComputeInputPartial(s, inputIndex) ==
    IF DummyCriterion_NoPartial(inputIndex) THEN Throw(s)
    ELSE WithInputGradient(s, inputIndex,
             ScaleAndAdd(Get00Element(s.GradientValues), Inputs(s, 1).FunctionValues,
                         Inputs(s, inputIndex).GradientValues))

DummyCriterion_EvaluateThisNode(s) ==
    IF GetNumRows(Inputs(s, 0).FunctionValues) # 1 \/ GetNumCols(Inputs(s, 0).FunctionValues) # 1
    THEN Throw(s)
    ELSE WithOutput(s, SetValueScalar(Resize(s.FunctionValues, 1, 1),
                                         Get00Element(Inputs(s, 0).FunctionValues)))

DummyCriterion_Validate(s) ==
    IF NumInputs(s) # 3 THEN Throw(s)
    ELSE IF Inputs(s, 0).OperationName # "InputValue" THEN Throw(s)
    ELSE IF GetNumRows(Inputs(s, 0).FunctionValues) # 1 THEN Throw(s)
    ELSE IF \E i \in 0 .. 2 : HasNoElements(Inputs(s, i).FunctionValues) THEN Throw(s)
    ELSE IF GetNumRows(Inputs(s, 1).FunctionValues) # GetNumRows(Inputs(s, 2).FunctionValues) THEN Throw(s)
    ELSE LET r == IF GetNumCols(Inputs(s, 1).FunctionValues) # GetNumCols(Inputs(s, 2).FunctionValues)
                  THEN WithInputValue(s, 1,
                           Resize(Inputs(s, 1).FunctionValues, GetNumRows(Inputs(s, 1).FunctionValues),
                                  GetNumCols(Inputs(s, 2).FunctionValues)))
                  ELSE s
         IN WithOutput(r, Resize(s.FunctionValues, 1, 1))

(***************************************************************************)
(* NoiseContrastiveEstimationNode                                          *)
(***************************************************************************)
Softmax == 0

Unnormalized == 1

None == 2

SizeofEvalMode == 4

\* m_evalMode holds the 32-bit pattern of the enum, read as a signed number.
\* The underlying type of the enum (int or unsigned int) is the build's choice.
EnumGreater(a, b) ==
    IF build.enumSigned THEN a > b
    ELSE (a < 0 /\ b >= 0) \/ ((a < 0) = (b < 0) /\ a > b)

\* File << and File >> of a 4-byte value: its bytes, least significant first.
EncodeInt32(v) == <<v % 256, (v \div 256) % 256, (v \div 65536) % 256, (v \div 16777216) % 256>>

DecodeInt32(b) ==
    b[1] + 256 * b[2] + 65536 * b[3] + 16777216 * (IF b[4] >= 128 THEN b[4] - 256 ELSE b[4])

BytesAt(f, pos, n) == [k \in 1 .. n |-> f.bytes[pos + k]]

WriteBytes(f, b) ==
    LET end == f.pos + Len(b)
        len == IF end > Len(f.bytes) THEN end ELSE Len(f.bytes)
    IN [f EXCEPT !.bytes = [k \in 1 .. len |-> IF k > f.pos /\ k <= end THEN b[k - f.pos]
                                               ELSE f.bytes[k]],
                 !.pos = end]

\* SaveToFile: fstream << m_evalMode.  saved notes the offsets that hold a mode
\* written by SaveToFile (and not overwritten since by another one).
NCE_SaveToFile(s, f) ==
    [WriteBytes(f, EncodeInt32(s.m.m_evalMode)) EXCEPT
        !.saved = {e \in f.saved : e[1] # f.pos} \cup {<<f.pos, s.m.m_evalMode>>}]

\* A load that also takes None itself for out of range.
NCE_LoadFromFile_Strict(f) ==
    LET raw == DecodeInt32(BytesAt(f, f.pos, SizeofEvalMode))
        pos == f.pos + SizeofEvalMode
    IN IF EnumGreater(raw, None) \/ raw = None
       THEN [m_evalMode |-> None, fstream |-> [f EXCEPT !.pos = pos - SizeofEvalMode], raw |-> raw]
       ELSE [m_evalMode |-> raw, fstream |-> [f EXCEPT !.pos = pos], raw |-> raw]

\* LoadFromFile: fstream >> m_evalMode, then the range check and the rewind.
NCE_LoadFromFile(f) ==
    LET raw == DecodeInt32(BytesAt(f, f.pos, SizeofEvalMode))
        pos == f.pos + SizeofEvalMode
    IN IF EnumGreater(raw, None)
       THEN [m_evalMode |-> None, fstream |-> [f EXCEPT !.pos = pos - SizeofEvalMode], raw |-> raw]
       ELSE [m_evalMode |-> raw, fstream |-> [f EXCEPT !.pos = pos], raw |-> raw]

\* The engine's NCE kernels.  Labels hold a word id in row 0 (its sign carries
\* the evaluation convention); the score of word w at column t is
\* hidden(:,t) . weight(:,w) + bias(w).
NceWord(s, t) == Abs(At(Inputs(s, 0).FunctionValues, 0, t)) % GetNumCols(Inputs(s, 2).FunctionValues)

NceScore(s, t, w) ==
    SumFn([h \in 0 .. (GetNumRows(Inputs(s, 1).FunctionValues) - 1) |->
              At(Inputs(s, 1).FunctionValues, h, t) * At(Inputs(s, 2).FunctionValues, h, w)],
          0 .. (GetNumRows(Inputs(s, 1).FunctionValues) - 1))
    + At(Inputs(s, 3).FunctionValues, 0, w)

NceColumns(s) == 0 .. (GetNumCols(Inputs(s, 0).FunctionValues) - 1)

NceLogSoftmax(s) ==
    LET nV == GetNumCols(Inputs(s, 2).FunctionValues)
    IN Mat(GetNumCols(Inputs(s, 0).FunctionValues), nV,
           LAMBDA t, w : NceScore(s, t, w)
                         - LogOf(SumFn([x \in 0 .. (nV - 1) |-> ExpOf(NceScore(s, t, x))], 0 .. (nV - 1))))

AssignSoftmaxSum(s, fv, logSoftmax) ==
    SetValueScalar(fv, -SumFn([t \in NceColumns(s) |-> At(logSoftmax, t, NceWord(s, t))], NceColumns(s)))

AssignNceUnnormalizedEval(s, fv) ==
    SetValueScalar(fv, -SumFn([t \in NceColumns(s) |-> NceScore(s, t, NceWord(s, t))], NceColumns(s)))

NcePrediction(s) == Mat(1, GetNumCols(Inputs(s, 0).FunctionValues), LAMBDA i, t : ExpOf(NceScore(s, t, NceWord(s, t))))

AssignNoiseContrastiveEstimation(s, fv) ==
    SetValueScalar(fv, -SumFn([t \in NceColumns(s) |-> LogOf(At(NcePrediction(s), 0, t) + 1)], NceColumns(s)))

\* c.AssignNCEDerivative(tmp, labels, hidden, weight, inputIndex) adds the
\* derivative of the objective with respect to input inputIndex into c.
AssignNCEDerivative(s, C, tmp, inputIndex) ==
    LET er(t) == 1 - At(tmp, 0, t)
        hit(t, j) == IF inputIndex = 1 THEN j = t ELSE j = NceWord(s, t)
        amount(i, t) == IF inputIndex = 1 THEN er(t) * At(Inputs(s, 2).FunctionValues, i, NceWord(s, t))
                        ELSE IF inputIndex = 2 THEN er(t) * At(Inputs(s, 1).FunctionValues, i, t)
                        ELSE er(t)
        cols == 0 .. (GetNumCols(tmp) - 1)
    IN Mat(C.rows, C.cols,
           LAMBDA i, j : At(C, i, j)
                         - SumFn([t \in cols |-> IF hit(t, j) THEN amount(i, t) ELSE 0], cols))

\* The selection with the sign convention consulted before the mode.
NCE_Branch_SignFirst(s) ==
    LET labels   == Inputs(s, 0).FunctionValues
        oneRow   == GetNumRows(labels) = 1
        positive == IF oneRow THEN Cardinality({i \in NceColumns(s) : At(labels, 0, i) > 0}) ELSE 0
        negative == IF oneRow THEN Cardinality({i \in NceColumns(s) : At(labels, 0, i) < 0}) ELSE 0
    IN IF oneRow /\ ~build.ndebug /\ positive * negative # 0 THEN "assert"
       ELSE IF oneRow /\ positive > 0 THEN "softmax"
       ELSE IF oneRow /\ negative > 0 THEN "unnormalized"
       ELSE IF s.m.m_evalMode = Softmax THEN "softmax"
       ELSE IF s.m.m_evalMode = Unnormalized THEN "unnormalized"
       ELSE "nce"

\* The branch EvaluateThisNode takes, or "assert" when the debug build's
\* assert(positive * negative == 0) stops it.
NCE_Branch(s) ==
    LET labels   == Inputs(s, 0).FunctionValues
        oneRow   == GetNumRows(labels) = 1
        positive == IF oneRow THEN Cardinality({i \in NceColumns(s) : At(labels, 0, i) > 0}) ELSE 0
        negative == IF oneRow THEN Cardinality({i \in NceColumns(s) : At(labels, 0, i) < 0}) ELSE 0
    IN IF oneRow /\ ~build.ndebug /\ positive * negative # 0 THEN "assert"
       ELSE IF s.m.m_evalMode = Softmax \/ (oneRow /\ positive > 0) THEN "softmax"
       ELSE IF s.m.m_evalMode = Unnormalized \/ (oneRow /\ negative > 0) THEN "unnormalized"
       ELSE "nce"

NCE_EvaluateThisNode(s) ==
    LET branch == NCE_Branch(s)
        r == CASE branch = "assert" -> Throw(s)
               [] branch = "softmax" ->
                    WithOutput(WithMember(s, "m_logSoftmax", NceLogSoftmax(s)),
                               AssignSoftmaxSum(s, s.FunctionValues, NceLogSoftmax(s)))
               [] branch = "unnormalized" -> WithOutput(s, AssignNceUnnormalizedEval(s, s.FunctionValues))
               [] OTHER ->
                    WithOutput(WithMember(s, "m_ncePrediction", NcePrediction(s)),
                               AssignNoiseContrastiveEstimation(s, s.FunctionValues))
    IN IF r.err THEN r ELSE WithMember(r, "m_needRecomputeGradientToSoftmaxInput", TRUE)

NCE_NoPartial(s, inputIndex) == s.m.m_evalMode # None \/ inputIndex = 0

\* Inputs(s, inputIndex) with inputIndex past the attached inputs reads past the
\* vector: the build decides whether that stops the call (ub = "stop") or goes
\* on through a wild reference (ub = "wild").
NCE_ComputeInputPartial(s, inputIndex, ub) ==
    LET r == WithMember(s, "m_needRecomputeGradientToSoftmaxInput", FALSE)
    IN IF NCE_NoPartial(s, inputIndex) THEN Throw(r)
       ELSE IF inputIndex >= NumInputs(s) THEN (IF ub = "stop" THEN Throw(r) ELSE r)
       ELSE WithInputGradient(r, inputIndex,
                AssignNCEDerivative(s, Inputs(s, inputIndex).GradientValues, s.m.m_ncePrediction, inputIndex))

NCE_Validate(s) ==
    IF NumInputs(s) # 4 THEN Throw(s)
    ELSE IF Inputs(s, 0).OperationName # "InputValue" THEN Throw(s)
    ELSE IF GetNumRows(Inputs(s, 1).FunctionValues) # GetNumRows(Inputs(s, 2).FunctionValues) THEN Throw(s)
    ELSE IF GetNumCols(Inputs(s, 0).FunctionValues) # GetNumCols(Inputs(s, 1).FunctionValues) THEN Throw(s)
    ELSE WithOutput(s, Resize(s.FunctionValues, 1, 1))

(***************************************************************************)
(* ClassBasedCrossEntropyWithSoftmaxNode                                   *)
(***************************************************************************)
CPUDEVICE == -1

\* The label column t: word index, class index, left and right bound.
CB_Label(s, t) ==
    LET lbls == Inputs(s, 0).FunctionValues
    IN [y_t |-> At(lbls, 0, t), c_t |-> At(lbls, 1, t),
        lft_bnd |-> At(lbls, 2, t), rgt_bnd |-> At(lbls, 3, t),
        nbr_wrd |-> At(lbls, 3, t) - At(lbls, 2, t)]

\* The node's own MaskToZeroWhenLabelAndFeatureMissing(s, matrix, t): whether
\* column t = (time t / nS, stream t % nS) is flagged NoLabel.
CB_IsMasked(s, t) ==
    /\ ~IsAllNone(s.m_pMBLayout)
    /\ <<t % s.m_pMBLayout.nS, t \div s.m_pMBLayout.nS>> \in s.m_pMBLayout.noLabel

\* When it is, the call zeroes matrixToBeMasked.ColumnSlice(t, 1).
CB_ZeroColumn(M, t) == WriteColumnSlice(M, t, Fill(M.rows, 1, 0))

\* log softmax(W x_t) over the words of the class, a 1 x nbr_wrd row.
CB_WordLogSoftmax(s, t, l) ==
    LET nRow == GetNumRows(Inputs(s, 1).FunctionValues)
        prod(w) == SumFn([h \in 0 .. (nRow - 1) |->
                             At(Inputs(s, 1).FunctionValues, h, t)
                             * At(Inputs(s, 2).FunctionValues, h, l.lft_bnd + w)], 0 .. (nRow - 1))
        words == 0 .. (l.nbr_wrd - 1)
        logSum == LogOf(SumFn([w \in words |-> ExpOf(prod(w))], words))
    IN Mat(1, l.nbr_wrd, LAMBDA i, w : prod(w) - logSum)

\* The word part of one column, on the word log-softmax ls of the class:
\* both scratch slices are written, then the score of word y_t is added.
CB_WordScore(a, l, ls) ==
    IF l.y_t < l.lft_bnd \/ l.y_t - l.lft_bnd >= l.nbr_wrd
    THEN [a EXCEPT !.logSoftmax = WriteColumnSlice(a.logSoftmax, a.sz, ls),
                   !.softMax = WriteColumnSlice(a.softMax, a.sz, InplaceExp(ls)),
                   !.err = TRUE]
    ELSE [a EXCEPT !.logSoftmax = WriteColumnSlice(a.logSoftmax, a.sz, ls),
                   !.softMax = WriteColumnSlice(a.softMax, a.sz, InplaceExp(ls)),
                   !.fv = a.fv + At(ls, 0, l.y_t - l.lft_bnd)]

\* The class part of one column, on the loop state the word part left.
CB_ClassScore(s, t, l, word) ==
    IF word.err THEN word
    ELSE IF CB_IsMasked(s, t)
    THEN [word EXCEPT !.clsLogSoftmax = CB_ZeroColumn(word.clsLogSoftmax, t)]
    ELSE IF l.c_t < 0 \/ l.c_t >= GetNumRows(word.clsLogSoftmax) THEN [word EXCEPT !.err = TRUE]
    ELSE [word EXCEPT !.fv = word.fv + At(word.clsLogSoftmax, l.c_t, t)]

CB_Advance_Stay(class, sz) == class

\* sz += nbr_wrd, at the end of a column that did not throw.
CB_Advance(class, sz) == IF class.err THEN class ELSE [class EXCEPT !.sz = sz]

CB_ForwardColumn_ScoresClass(s, t, a) ==
    LET l == CB_Label(s, t)
    IN IF l.nbr_wrd = 0
       THEN (IF l.y_t = 0 THEN CB_Advance(CB_ClassScore(s, t, l, a), a.sz) ELSE [a EXCEPT !.err = TRUE])
       ELSE IF l.lft_bnd + l.nbr_wrd > GetNumCols(Inputs(s, 2).FunctionValues) THEN [a EXCEPT !.err = TRUE]
       ELSE CB_Advance(
                CB_ClassScore(s, t, l,
                    IF CB_IsMasked(s, t)
                    THEN IF t >= l.nbr_wrd THEN [a EXCEPT !.err = TRUE]
                         ELSE [a EXCEPT !.logSoftmax = CB_ZeroColumn(a.logSoftmax, a.sz + t)]
                    ELSE CB_WordScore(a, l, CB_WordLogSoftmax(s, t, l))),
                a.sz + l.nbr_wrd)

\* One column of the loop over time of EvaluateThisNodeS.  a is the state of
\* the loop: [err, fv, logSoftmax, softMax, clsLogSoftmax, sz].
CB_ForwardColumn(s, t, a) ==
    LET l == CB_Label(s, t)
    IN IF l.nbr_wrd = 0 THEN (IF l.y_t = 0 THEN a ELSE [a EXCEPT !.err = TRUE])
       ELSE IF l.lft_bnd + l.nbr_wrd > GetNumCols(Inputs(s, 2).FunctionValues) THEN [a EXCEPT !.err = TRUE]
       ELSE CB_Advance(
                CB_ClassScore(s, t, l,
                    IF CB_IsMasked(s, t)
                    THEN \* the mask call addresses column t of the 1 x nbr_wrd slice
                         IF t >= l.nbr_wrd THEN [a EXCEPT !.err = TRUE]
                         ELSE [a EXCEPT !.logSoftmax = CB_ZeroColumn(a.logSoftmax, a.sz + t)]
                    ELSE CB_WordScore(a, l, CB_WordLogSoftmax(s, t, l))),
                a.sz + l.nbr_wrd)

RECURSIVE CB_ForwardLoop(_, _, _)
CB_ForwardLoop(s, t, a) ==
    IF t >= GetNumCols(Inputs(s, 0).FunctionValues) \/ a.err THEN a
    ELSE CB_ForwardLoop(s, t + 1, CB_ForwardColumn(s, t, a))

CB_TotalWords(s) ==
    LET cols == 0 .. (GetNumCols(Inputs(s, 0).FunctionValues) - 1)
    IN SumFn([t \in cols |-> CB_Label(s, t).nbr_wrd], cols)

\* After the loop over time: the scratch tensors and the negated sum.
CB_ForwardResult(s, totalWords, clsLogSoftmax, a) ==
    WithOutput([s EXCEPT !.err = s.err \/ a.err,
                         !.m = [s.m EXCEPT !.m_totalNbrWords = totalWords,
                                           !.m_logSoftmax = a.logSoftmax,
                                           !.m_softMax = a.softMax,
                                           !.m_clsLogSoftmax = a.clsLogSoftmax,
                                           !.m_clsSoftmax = InplaceExp(clsLogSoftmax)]],
               SetValueScalar(s.FunctionValues, IF a.err THEN a.fv ELSE -a.fv))

\* The loop over time, on the sizes and class log-softmax computed before it.
CB_ForwardPass(s, totalWords, clsLogSoftmax) ==
    CB_ForwardResult(s, totalWords, clsLogSoftmax,
        CB_ForwardLoop(s, 0, [err |-> FALSE, fv |-> 0, sz |-> 0,
                              logSoftmax |-> Resize(s.m.m_logSoftmax, 1, totalWords),
                              softMax |-> Resize(s.m.m_softMax, 1, totalWords),
                              clsLogSoftmax |-> clsLogSoftmax]))

ClassBased_EvaluateThisNodeS(s) ==
    CB_ForwardPass(s, CB_TotalWords(s), AssignLogSoftmaxOf(Inputs(s, 3).FunctionValues))

\* m_needRecomputeGradientToSoftmaxInput = true, when the forward pass returned.
CB_NeedRecompute(r) ==
    IF r.err THEN r ELSE WithMember(r, "m_needRecomputeGradientToSoftmaxInput", TRUE)

ClassBased_EvaluateThisNode(s) ==
    IF Inputs(s, 0).DeviceId # CPUDEVICE THEN Throw(s)
    ELSE CB_NeedRecompute(ClassBased_EvaluateThisNodeS(s))

\* ComputeCEPartialToSoftmaxInputs: MinusOneAt(position), then Scale(g).
ComputeCEPartialToSoftmaxInputs(S, g, position) ==
    Mat(S.rows, S.cols,
        LAMBDA i, j : g * (At(S, i, j) - (IF j * S.rows + i = position THEN 1 ELSE 0)))

\* One column of the loop of ComputeSoftMaxPartial.  a is [err, softMax, grd, sz].
\* Some label column with a non-empty class range has its word index outside
\* that range while the cached soft-max gradient is due for recomputation.
CB_WordIndexOutside(s) ==
    /\ s.m.m_needRecomputeGradientToSoftmaxInput
    /\ \E t \in 0 .. GetNumCols(Inputs(s, 1).FunctionValues) - 1 :
          LET l == CB_Label(s, t)
          IN l.nbr_wrd # 0 /\ (l.y_t < l.lft_bnd \/ l.y_t - l.lft_bnd >= l.nbr_wrd)

\* The node makes no test of y_t against [lft_bnd, rgt_bnd) here: the position
\* y_t - lft_bnd goes to MinusOneAt as it is.  What the matrix engine does with
\* a position outside the slice is a choice (ub): "wild" goes on with no error
\* and no element of the slice reduced by one, anything else throws.
CB_SoftMaxPartialColumn(s, t, a, ub) ==
    LET l == CB_Label(s, t)
    IN IF l.nbr_wrd = 0 THEN (IF l.y_t = 0 THEN a ELSE [a EXCEPT !.err = TRUE])
       ELSE IF a.sz + l.nbr_wrd > GetNumCols(a.softMax) \/ a.sz + l.nbr_wrd > GetNumCols(a.grd)
            THEN [a EXCEPT !.err = TRUE]
       ELSE IF (l.y_t - l.lft_bnd < 0 \/ l.y_t - l.lft_bnd >= l.nbr_wrd) /\ ub # "wild"
            THEN [a EXCEPT !.err = TRUE]
       ELSE LET softMax == ComputeCEPartialToSoftmaxInputs(
                               ColumnSlice(a.softMax, a.sz, l.nbr_wrd),
                               Get00Element(s.GradientValues), l.y_t - l.lft_bnd)
            IN [a EXCEPT !.softMax = WriteColumnSlice(a.softMax, a.sz, softMax),
                         !.grd = WriteColumnSlice(a.grd, a.sz, softMax),
                         !.sz = a.sz + l.nbr_wrd]

RECURSIVE CB_SoftMaxPartialLoop(_, _, _, _)
CB_SoftMaxPartialLoop(s, t, a, ub) ==
    IF t >= GetNumCols(Inputs(s, 1).FunctionValues) \/ a.err THEN a
    ELSE CB_SoftMaxPartialLoop(s, t + 1, CB_SoftMaxPartialColumn(s, t, a, ub), ub)

ClassBased_ComputeSoftMaxPartial_Always(r, ub) ==
    LET a == CB_SoftMaxPartialLoop(r, 0, [err |-> FALSE, sz |-> 0, softMax |-> r.m.m_softMax,
                 grd |-> Resize(r.m.m_grdToSoftMaxInput, 1, r.m.m_totalNbrWords)], ub)
        w == [r EXCEPT !.m = [r.m EXCEPT !.m_softMax = a.softMax, !.m_grdToSoftMaxInput = a.grd]]
    IN IF a.err THEN Throw(w)
       ELSE WithMember(w, "m_needRecomputeGradientToSoftmaxInput", FALSE)

ClassBased_ComputeSoftMaxPartial(r, ub) ==
    IF r.m.m_needRecomputeGradientToSoftmaxInput
    THEN LET a == CB_SoftMaxPartialLoop(r, 0, [err |-> FALSE, sz |-> 0, softMax |-> r.m.m_softMax,
                      grd |-> Resize(r.m.m_grdToSoftMaxInput, 1, r.m.m_totalNbrWords)], ub)
             w == [r EXCEPT !.m = [r.m EXCEPT !.m_softMax = a.softMax, !.m_grdToSoftMaxInput = a.grd]]
         IN IF a.err THEN Throw(w)
            ELSE WithMember(w, "m_needRecomputeGradientToSoftmaxInput", FALSE)
    ELSE r

CB_PartialColumn_AllWords(r, inputIndex, t, sz) ==
    LET l   == CB_Label(r, t)
        gs  == ColumnSlice(r.m.m_grdToSoftMaxInput, sz, l.nbr_wrd)
        grd == r.m_children[inputIndex].GradientValues
    IN IF sz + l.nbr_wrd > GetNumCols(r.m.m_grdToSoftMaxInput)
          \/ t >= GetNumCols(r.m.m_clsLogSoftmax)
          \/ l.lft_bnd + l.nbr_wrd > GetNumCols(Inputs(r, 2).FunctionValues)
       THEN Throw(r)
       ELSE CASE inputIndex = 1 ->
                 \* grd_t += input_weight_t * grd_to_soft_max_input'
                 WithInputGradient(r, 1,
                     Mat(grd.rows, grd.cols,
                         LAMBDA h, j : At(grd, h, j)
                             + (IF j = t
                                THEN SumFn([w \in 0 .. (l.nbr_wrd - 1) |->
                                               At(Inputs(r, 2).FunctionValues, h, l.lft_bnd + w) * At(gs, 0, w)],
                                           0 .. (l.nbr_wrd - 1))
                                ELSE 0)))
              [] inputIndex = 2 ->
                 \* grd_to_wgt_t += obs * grd_to_soft_max_input
                 WithInputGradient(r, 2,
                     Mat(grd.rows, grd.cols,
                         LAMBDA h, j : At(grd, h, j)
                             + At(Inputs(r, 1).FunctionValues, h, t) * At(gs, 0, 0)))
              [] OTHER ->
                 \* grd_t.SetValue(m_clsSoftmax column t), then minus one at c_t, scaled
                 IF l.c_t < 0 \/ l.c_t >= GetNumRows(grd) THEN Throw(r)
                 ELSE WithInputGradient(r, 3,
                          WriteColumnSlice(grd, t,
                              ComputeCEPartialToSoftmaxInputs(ColumnSlice(r.m.m_clsSoftmax, t, 1),
                                                              Get00Element(r.GradientValues), l.c_t)))

\* One column of the loop of ComputeInputPartial; r is the handler's state.
CB_PartialColumn(r, inputIndex, t, sz) ==
    LET l   == CB_Label(r, t)
        gs  == ColumnSlice(r.m.m_grdToSoftMaxInput, sz, l.nbr_wrd)
        grd == r.m_children[inputIndex].GradientValues
    IN IF sz + l.nbr_wrd > GetNumCols(r.m.m_grdToSoftMaxInput)
          \/ t >= GetNumCols(r.m.m_clsLogSoftmax)
          \/ l.lft_bnd + l.nbr_wrd > GetNumCols(Inputs(r, 2).FunctionValues)
       THEN Throw(r)
       ELSE CASE inputIndex = 1 ->
                 \* grd_t += input_weight_t * grd_to_soft_max_input'
                 WithInputGradient(r, 1,
                     Mat(grd.rows, grd.cols,
                         LAMBDA h, j : At(grd, h, j)
                             + (IF j = t
                                THEN SumFn([w \in 0 .. (l.nbr_wrd - 1) |->
                                               At(Inputs(r, 2).FunctionValues, h, l.lft_bnd + w) * At(gs, 0, w)],
                                           0 .. (l.nbr_wrd - 1))
                                ELSE 0)))
              [] inputIndex = 2 ->
                 \* grd_to_wgt_t += obs * grd_to_soft_max_input
                 WithInputGradient(r, 2,
                     Mat(grd.rows, grd.cols,
                         LAMBDA h, j : At(grd, h, j)
                             + (IF j >= l.lft_bnd /\ j < l.rgt_bnd
                                THEN At(Inputs(r, 1).FunctionValues, h, t) * At(gs, 0, j - l.lft_bnd)
                                ELSE 0)))
              [] OTHER ->
                 \* grd_t.SetValue(m_clsSoftmax column t), then minus one at c_t, scaled
                 IF l.c_t < 0 \/ l.c_t >= GetNumRows(grd) THEN Throw(r)
                 ELSE WithInputGradient(r, 3,
                          WriteColumnSlice(grd, t,
                              ComputeCEPartialToSoftmaxInputs(ColumnSlice(r.m.m_clsSoftmax, t, 1),
                                                              Get00Element(r.GradientValues), l.c_t)))

RECURSIVE CB_PartialLoop(_, _, _, _)
CB_PartialLoop(r, inputIndex, t, sz) ==
    IF t >= GetNumCols(Inputs(r, 0).FunctionValues) \/ r.err THEN r
    ELSE IF CB_Label(r, t).nbr_wrd = 0 THEN CB_PartialLoop(r, inputIndex, t + 1, sz)
    ELSE CB_PartialLoop(CB_PartialColumn(r, inputIndex, t, sz), inputIndex, t + 1,
                        sz + CB_Label(r, t).nbr_wrd)

\* The value of sz in the loop of ComputeInputPartial when it reaches column
\* t: it starts at 0 and gains nbr_wrd at the end of every column that is not
\* skipped (a skipped column has nbr_wrd = 0).
RECURSIVE CB_PartialOffset(_, _)
CB_PartialOffset(r, t) ==
    IF t = 0 THEN 0 ELSE CB_PartialOffset(r, t - 1) + CB_Label(r, t - 1).nbr_wrd

ClassBased_NoPartial(inputIndex) == inputIndex # 1 /\ inputIndex # 2 /\ inputIndex # 3

ClassBased_ComputeInputPartial(s, inputIndex, ub) ==
    IF ClassBased_NoPartial(inputIndex) THEN Throw(s)
    ELSE LET r == ClassBased_ComputeSoftMaxPartial(s, ub)
         IN IF r.err THEN r ELSE CB_PartialLoop(r, inputIndex, 0, 0)

ClassBased_Validate(s) ==
    IF NumInputs(s) # 4 THEN Throw(s)
    ELSE IF Inputs(s, 0).OperationName # "InputValue" THEN Throw(s)
    ELSE IF GetNumRows(Inputs(s, 1).FunctionValues) # GetNumRows(Inputs(s, 2).FunctionValues) THEN Throw(s)
    ELSE IF GetNumCols(Inputs(s, 0).FunctionValues) # GetNumCols(Inputs(s, 1).FunctionValues) THEN Throw(s)
    ELSE IF GetNumRows(Inputs(s, 0).FunctionValues) # 4 THEN Throw(s)
    ELSE IF GetNumCols(Inputs(s, 3).FunctionValues) # GetNumCols(Inputs(s, 0).FunctionValues) THEN Throw(s)
    ELSE WithMember(WithOutput(s, Resize(s.FunctionValues, 1, 1)),
                    "m_nbrCls", GetNumRows(Inputs(s, 3).FunctionValues))

(***************************************************************************)
(* CRFNode.  Scores live in the log semiring and are held as weights: the  *)
(* tensor element for a score x is exp(x), a positive integer for the      *)
(* position and pair scores, 0 for LZERO.  Quotients of weights (the       *)
(* output, beta, the posteriors, the gradients) are fractions <<n, d>> in  *)
(* lowest terms with d > 0.                                                *)
(***************************************************************************)
LZERO == 0

RECURSIVE GCD(_, _)
GCD(a, b) == IF b = 0 THEN Abs(a) ELSE GCD(b, a % b)

Frac(n, d) ==
    LET g == GCD(n, d)
    IN IF d = 0 THEN <<Sign(n), 0>>
       ELSE IF d < 0 THEN <<(-n) \div g, (-d) \div g>> ELSE <<n \div g, d \div g>>

FracAdd(a, b) == Frac(a[1] * b[2] + b[1] * a[2], a[2] * b[2])

FracMul(a, b) == Frac(a[1] * b[1], a[2] * b[2])

FracOfInt(n) == <<n, 1>>

RECURSIVE FracSum(_, _)
FracSum(f, S) == IF S = {} THEN FracOfInt(0)
                 ELSE LET x == CHOOSE y \in S : TRUE IN FracAdd(f[x], FracSum(f, S \ {x}))

RECURSIVE ProdFn(_, _)
ProdFn(f, S) == IF S = {} THEN 1
                ELSE LET x == CHOOSE y \in S : TRUE IN f[x] * ProdFn(f, S \ {x})

RECURSIVE Power(_, _)
Power(x, n) == IF n <= 0 THEN 1 ELSE x * Power(x, n - 1)

\* for (ik = 0; ik < rows; ik++) if (lbls(ik, t) != 0) { i = ik; break; }
CRF_LabelAt(lbls, t) ==
    LET hot == {ik \in 0 .. (GetNumRows(lbls) - 1) : At(lbls, ik, t) # 0}
    IN IF hot = {} THEN -1 ELSE CHOOSE ik \in hot : \A other \in hot : ik <= other

\* One column of ForwardCompute: alpha(k, t) for every k.
CRF_ForwardColumn(alpha, t, lbls, pos_scores, pair_scores) ==
    LET iNumLab  == GetNumRows(lbls)
        firstLbl == CRF_LabelAt(lbls, 0)
        fAlpha(j) == IF t > 0 THEN At(alpha, j, t - 1)
                     ELSE IF j = firstLbl THEN 1 ELSE LZERO
        fTmp(k) == SumFn([j \in 0 .. (iNumLab - 1) |-> fAlpha(j) * At(pair_scores, k, j)],
                         0 .. (iNumLab - 1))
    IN WriteColumnSlice(alpha, t, Mat(iNumLab, 1, LAMBDA k, c : fTmp(k) * At(pos_scores, k, t)))

RECURSIVE CRF_ForwardLoop(_, _, _, _, _)
CRF_ForwardLoop(alpha, t, lbls, pos_scores, pair_scores) ==
    IF t >= GetNumCols(lbls) THEN alpha
    ELSE CRF_ForwardLoop(CRF_ForwardColumn(alpha, t, lbls, pos_scores, pair_scores),
                         t + 1, lbls, pos_scores, pair_scores)

CRF_ForwardCompute(alpha, lbls, pos_scores, pair_scores) ==
    CRF_ForwardLoop(Resize(alpha, GetNumRows(lbls), GetNumCols(lbls)), 0, lbls, pos_scores, pair_scores)

\* The engine's RCRFBackwardCompute: beta(k, t) is the log of the posterior of
\* label k at position t, so that exp(beta) is the posterior.
CRF_BackwardColumn(alpha, beta, t, pair_scores) ==
    LET labs == 0 .. (GetNumRows(alpha) - 1)
        last_ == t = GetNumCols(alpha) - 1
        total == SumFn([k \in labs |-> At(alpha, k, t)], labs)
        norm(j) == SumFn([x \in labs |-> At(alpha, x, t) * At(pair_scores, j, x)], labs)
        b(k) == IF last_ THEN Frac(At(alpha, k, t), total)
                ELSE FracSum([j \in labs |->
                                 FracMul(At(beta, j, t + 1),
                                         Frac(At(alpha, k, t) * At(pair_scores, j, k), norm(j)))], labs)
    IN WriteColumnSlice(beta, t, Mat(GetNumRows(alpha), 1, LAMBDA k, c : b(k)))

RECURSIVE CRF_BackwardLoop(_, _, _, _)
CRF_BackwardLoop(alpha, beta, t, pair_scores) ==
    IF t < 0 THEN beta
    ELSE CRF_BackwardLoop(alpha, CRF_BackwardColumn(alpha, beta, t, pair_scores), t - 1, pair_scores)

CRF_BackwardCompute(alpha, pair_scores) ==
    CRF_BackwardLoop(alpha, Fill(GetNumRows(alpha), GetNumCols(alpha), FracOfInt(0)),
                     GetNumCols(alpha) - 1, pair_scores)

\* postprob.SetValue(beta); postprob.InplaceExp(): beta holds the score as
\* its weight already, the posterior is that weight.
CRF_PostProbCompute(alpha, beta) == Resize(beta, GetNumRows(alpha), GetNumCols(alpha))

\* tscore: the sum of pair_scores(j, i) over consecutive labels i, j.
CRF_TransitionScore(lbls, pair_scores) ==
    LET steps == 0 .. (GetNumCols(lbls) - 2)
    IN ProdFn([t \in steps |-> At(pair_scores, CRF_LabelAt(lbls, t + 1), CRF_LabelAt(lbls, t))], steps)

\* functionValues.AssignInnerProductOfMatrices(lbls, pos_scores)
CRF_CorrectPositionScore(lbls, pos_scores) ==
    ProdFn([p \in Idx(GetNumRows(lbls), GetNumCols(lbls)) |->
               Power(At(pos_scores, p[1], p[2]), At(lbls, p[1], p[2]))],
           Idx(GetNumRows(lbls), GetNumCols(lbls)))

\* EvaluateThisNodeS on one slice: what it leaves in alpha, beta, postprob,
\* functionValues (the score -(tscore - fAlpha)), firstLbl and lastLbl.
CRF_EvaluateThisNodeS(alpha0, lbls, pos_scores, pair_scores) ==
    LET nObs   == GetNumCols(lbls)
        alpha  == CRF_ForwardCompute(alpha0, lbls, pos_scores, pair_scores)
        beta   == CRF_BackwardCompute(alpha, pair_scores)
        fAlpha == SumFn([k \in 0 .. (GetNumRows(alpha) - 1) |-> At(alpha, k, nObs - 1)],
                        0 .. (GetNumRows(alpha) - 1))
        tscore == CRF_TransitionScore(lbls, pair_scores) * CRF_CorrectPositionScore(lbls, pos_scores)
    IN [alpha |-> alpha, beta |-> beta, postprob |-> CRF_PostProbCompute(alpha, beta),
        functionValues |-> Frac(fAlpha, tscore),
        firstLbl |-> CRF_LabelAt(lbls, 0), lastLbl |-> CRF_LabelAt(lbls, nObs - 1)]

\* The loop over the parallel sequences of EvaluateThisNode; r is the handler's state.
RECURSIVE CRF_SliceLoop(_, _, _)
CRF_SliceLoop(r, i, nstep) ==
    IF i >= r.m_pMBLayout.nS THEN r
    ELSE LET e == CRF_EvaluateThisNodeS(ColumnSlice(r.m.mAlpha, i * nstep, nstep),
                      ColumnSlice(Inputs(r, 0).FunctionValues, i * nstep, nstep),
                      ColumnSlice(Inputs(r, 1).FunctionValues, i * nstep, nstep),
                      Inputs(r, 2).FunctionValues)
             w == [r EXCEPT !.m = [r.m EXCEPT
                       !.mAlpha = WriteColumnSlice(r.m.mAlpha, i * nstep, e.alpha),
                       !.mBeta = WriteColumnSlice(r.m.mBeta, i * nstep, e.beta),
                       !.mPostProb = WriteColumnSlice(r.m.mPostProb, i * nstep, e.postprob),
                       !.mStartLbl = e.firstLbl,
                       !.mEndLbl = e.lastLbl]]
         IN CRF_SliceLoop(WithOutput(w, Map1(r.FunctionValues, LAMBDA x : FracMul(x, e.functionValues))),
                          i + 1, nstep)

CRF_EvaluateThisNode(s) ==
    LET nrow  == GetNumRows(Inputs(s, 0).FunctionValues)
        ncol  == GetNumCols(Inputs(s, 0).FunctionValues)
        r     == [s EXCEPT !.m = [s.m EXCEPT
                      !.mAlpha = IF s.m.mAlpha.rows = nrow /\ s.m.mAlpha.cols = ncol
                                 THEN s.m.mAlpha ELSE Fill(nrow, ncol, LZERO),
                      !.mBeta = IF s.m.mBeta.rows = nrow /\ s.m.mBeta.cols = ncol
                                THEN s.m.mBeta ELSE Fill(nrow, ncol, FracOfInt(0)),
                      !.mPostProb = IF s.m.mPostProb.rows = nrow /\ s.m.mPostProb.cols = ncol
                                    THEN s.m.mPostProb ELSE Fill(nrow, ncol, FracOfInt(0))],
                    !.FunctionValues = SetValueScalar(s.FunctionValues, FracOfInt(1))]
    IN CRF_SliceLoop(r, 0, ncol \div s.m_pMBLayout.nS)

\* ErrorSignalToPostitionDependentNode: grd += g * (postProb - labls)
CRF_ErrorSignalToPostitionDependentNode(gradientValues, labls, postProb, grd) ==
    Mat(grd.rows, grd.cols,
        LAMBDA k, t : FracAdd(At(grd, k, t),
                              FracMul(FracOfInt(Get00Element(gradientValues)),
                                      FracAdd(At(postProb, k, t), FracOfInt(-At(labls, k, t))))))

\* The engine's RCRFTransGrdCompute on one slice: grd(k, j) gains, for every
\* position t, the posterior of the transition j -> k into t minus 1 on the
\* labelled transition; the label before position 0 is startLbl.
CRF_TransGrdCompute(lbls, alpha, beta, pair_scores, grd, startLbl) ==
    LET labs == 0 .. (GetNumRows(pair_scores) - 1)
        steps == 0 .. (GetNumCols(alpha) - 1)
        before(j, t) == IF t > 0 THEN At(alpha, j, t - 1) ELSE IF j = startLbl THEN 1 ELSE LZERO
        norm(k, t) == SumFn([x \in labs |-> before(x, t) * At(pair_scores, k, x)], labs)
        edge(k, j, t) == IF norm(k, t) = 0 THEN FracOfInt(0)
                         ELSE FracMul(At(beta, k, t), Frac(before(j, t) * At(pair_scores, k, j), norm(k, t)))
        labelled(k, j, t) == /\ k = CRF_LabelAt(lbls, t)
                             /\ j = (IF t > 0 THEN CRF_LabelAt(lbls, t - 1) ELSE startLbl)
    IN Mat(grd.rows, grd.cols,
           LAMBDA k, j : FracAdd(At(grd, k, j),
                             FracSum([t \in steps |->
                                         FracAdd(edge(k, j, t),
                                                 FracOfInt(IF labelled(k, j, t) THEN -1 ELSE 0))], steps)))

\* The start label ComputeInputPartial hands to ErrorSignalToTransitionNode
\* for slice i: the member mStartLbl, whatever i is.
CRF_StartLblOf(r, i) == r.m.mStartLbl

RECURSIVE CRF_TransitionLoop(_, _, _)
CRF_TransitionLoop(r, i, nstep) ==
    IF i >= r.m_pMBLayout.nS THEN r
    ELSE CRF_TransitionLoop(
             WithInputGradient(r, 2,
                 CRF_TransGrdCompute(ColumnSlice(Inputs(r, 0).FunctionValues, i * nstep, nstep),
                                     ColumnSlice(r.m.mAlpha, i * nstep, nstep),
                                     ColumnSlice(r.m.mBeta, i * nstep, nstep),
                                     Inputs(r, 2).FunctionValues, Inputs(r, 2).GradientValues,
                                     CRF_StartLblOf(r, i))),
             i + 1, nstep)

\* Resize of a tensor of scores: a fresh element is the score 0, the weight 1.
CRF_ResizeScore(M, r, c) == IF M.rows = r /\ M.cols = c THEN M ELSE Fill(r, c, FracOfInt(1))

CRF_NoPartial(inputIndex) == inputIndex # 1 /\ inputIndex # 2

CRF_ComputeInputPartial(s, inputIndex) ==
    IF CRF_NoPartial(inputIndex) THEN Throw(s)
    ELSE IF inputIndex = 1
    THEN IF GetNumRows(s.m.mPostProb) # GetNumRows(Inputs(s, 1).GradientValues)
            \/ GetNumCols(s.m.mPostProb) # GetNumCols(Inputs(s, 1).GradientValues)
         THEN Throw(s)
         ELSE WithInputGradient(s, 1,
                  CRF_ErrorSignalToPostitionDependentNode(s.GradientValues, Inputs(s, 0).FunctionValues,
                                                          s.m.mPostProb, Inputs(s, 1).GradientValues))
    ELSE IF ~build.ndebug /\ HasNoElements(Inputs(s, 2).GradientValues) THEN Throw(s)
    ELSE CRF_TransitionLoop(s, 0, GetNumCols(s.m.mAlpha) \div s.m_pMBLayout.nS)

\* CRF_Validate without the resize of the output.
CRF_Validate_NoResize(s) ==
    IF NumInputs(s) # 3 THEN Throw(s)
    ELSE IF ~(/\ GetNumRows(Inputs(s, 1).FunctionValues) = GetNumRows(Inputs(s, 2).FunctionValues)
              /\ GetNumRows(Inputs(s, 0).FunctionValues) = GetNumRows(Inputs(s, 1).FunctionValues)
              /\ GetNumCols(Inputs(s, 0).FunctionValues) = GetNumCols(Inputs(s, 1).FunctionValues)
              /\ GetNumCols(Inputs(s, 2).FunctionValues) = GetNumRows(Inputs(s, 2).FunctionValues))
    THEN Throw(s)
    ELSE s

CRF_Validate(s) ==
    IF NumInputs(s) # 3 THEN Throw(s)
    ELSE IF ~(/\ GetNumRows(Inputs(s, 1).FunctionValues) = GetNumRows(Inputs(s, 2).FunctionValues)
              /\ GetNumRows(Inputs(s, 0).FunctionValues) = GetNumRows(Inputs(s, 1).FunctionValues)
              /\ GetNumCols(Inputs(s, 0).FunctionValues) = GetNumCols(Inputs(s, 1).FunctionValues)
              /\ GetNumCols(Inputs(s, 2).FunctionValues) = GetNumRows(Inputs(s, 2).FunctionValues))
    THEN Throw(s)
    ELSE WithOutput(s, CRF_ResizeScore(s.FunctionValues, 1, 1))

(***************************************************************************)
(* The node as the handlers see it, and the virtual dispatch on the node's *)
(* OperationName().                                                        *)
(***************************************************************************)
(***************************************************************************)
(* MoveMatricesToDevice and CopyTo.  GetDeviceId maps each matrix the node *)
(* owns to its device; the members are constructed on the node's device.   *)
(***************************************************************************)
\* The Matrix<ElemType> members each node declares.
ScratchMatrices(n) ==
    CASE n = "SquareError" -> {"m_leftMinusRight"}
      [] n = "CrossEntropyWithSoftmax" -> {"m_logSoftmaxOfRight", "m_softmaxOfRight"}
      [] n = "CrossEntropy" -> {"m_logOfRight", "m_leftDivRight"}
      [] n = "MatrixL1Reg" -> {"m_gradientOfL1Norm"}
      [] n = "MatrixL2Reg" -> {"m_temp"}
      [] n = "NCEBasedCrossEntropyWithSoftmax" ->
            {"m_logSoftmax", "m_softMax", "m_ncePrediction", "m_grdToSoftMaxInput"}
      [] n = "ClassBasedCrossEntropyWithSoftmax" ->
            {"m_logSoftmax", "m_softMax", "m_clsLogSoftmax", "m_clsSoftmax", "m_grdToSoftMaxInput"}
      [] n = "CRF" -> {"mAlpha", "mBeta", "mPostProb"}
      [] OTHER -> {}

OwnedMatrices(n) == {"FunctionValues", "GradientValues"} \cup ScratchMatrices(n)

\* matrix.TransferToDeviceIfNotThereAndNotAutoPlace(deviceId, true), for each
\* of the named matrices (none of them auto-placed).
TransferToDeviceIfNotThereAndNotAutoPlace(dev, names, deviceId) ==
    [x \in DOMAIN dev |-> IF x \in names THEN deviceId ELSE dev[x]]

\* Base::MoveMatricesToDevice moves the output and the gradient.
Base_MoveMatricesToDevice(dev, deviceId) ==
    TransferToDeviceIfNotThereAndNotAutoPlace(dev, {"FunctionValues", "GradientValues"}, deviceId)

SquareError_MoveMatricesToDevice(dev, deviceId) ==
    TransferToDeviceIfNotThereAndNotAutoPlace(Base_MoveMatricesToDevice(dev, deviceId),
        {"m_leftMinusRight"}, deviceId)

CrossEntropyWithSoftmax_MoveMatricesToDevice(dev, deviceId) ==
    TransferToDeviceIfNotThereAndNotAutoPlace(Base_MoveMatricesToDevice(dev, deviceId),
        {"m_logSoftmaxOfRight", "m_softmaxOfRight"}, deviceId)

CrossEntropy_MoveMatricesToDevice(dev, deviceId) ==
    TransferToDeviceIfNotThereAndNotAutoPlace(Base_MoveMatricesToDevice(dev, deviceId),
        {"m_logOfRight", "m_leftDivRight"}, deviceId)

MatrixL1Reg_MoveMatricesToDevice(dev, deviceId) ==
    TransferToDeviceIfNotThereAndNotAutoPlace(Base_MoveMatricesToDevice(dev, deviceId),
        {"m_gradientOfL1Norm"}, deviceId)

MatrixL2Reg_MoveMatricesToDevice(dev, deviceId) ==
    TransferToDeviceIfNotThereAndNotAutoPlace(Base_MoveMatricesToDevice(dev, deviceId),
        {"m_temp"}, deviceId)

NCE_MoveMatricesToDevice(dev, deviceId) ==
    TransferToDeviceIfNotThereAndNotAutoPlace(Base_MoveMatricesToDevice(dev, deviceId),
        {"m_logSoftmax", "m_softMax", "m_grdToSoftMaxInput"}, deviceId)

ClassBased_MoveMatricesToDevice(dev, deviceId) ==
    TransferToDeviceIfNotThereAndNotAutoPlace(Base_MoveMatricesToDevice(dev, deviceId),
        {"m_logSoftmax", "m_softMax", "m_clsLogSoftmax", "m_clsSoftmax", "m_grdToSoftMaxInput"},
        deviceId)

\* CRFNode and DummyCriterionNode do not override MoveMatricesToDevice.
DoMoveMatricesToDevice(n, dev, deviceId) ==
    CASE n = "SquareError" -> SquareError_MoveMatricesToDevice(dev, deviceId)
      [] n = "CrossEntropyWithSoftmax" -> CrossEntropyWithSoftmax_MoveMatricesToDevice(dev, deviceId)
      [] n = "CrossEntropy" -> CrossEntropy_MoveMatricesToDevice(dev, deviceId)
      [] n = "MatrixL1Reg" -> MatrixL1Reg_MoveMatricesToDevice(dev, deviceId)
      [] n = "MatrixL2Reg" -> MatrixL2Reg_MoveMatricesToDevice(dev, deviceId)
      [] n = "NCEBasedCrossEntropyWithSoftmax" -> NCE_MoveMatricesToDevice(dev, deviceId)
      [] n = "ClassBasedCrossEntropyWithSoftmax" -> ClassBased_MoveMatricesToDevice(dev, deviceId)
      [] OTHER -> Base_MoveMatricesToDevice(dev, deviceId)

\* node->member = member, for each of the named members.
AssignMembers(to, from, names) == [x \in DOMAIN to |-> IF x \in names THEN from[x] ELSE to[x]]

\* CopyTo(nodeP, newName, flags): to holds the members of nodeP, flags is the
\* set of CopyNodeFlags bits that are set.
SquareError_CopyTo(s, to, flags) ==
    IF "copyNodeValue" \in flags THEN AssignMembers(to, s.m, {"m_leftMinusRight"}) ELSE to

CrossEntropyWithSoftmax_CopyTo(s, to, flags) ==
    IF "copyNodeValue" \in flags
    THEN AssignMembers(to, s.m, {"m_logSoftmaxOfRight", "m_softmaxOfRight"}) ELSE to

CrossEntropy_CopyTo(s, to, flags) ==
    IF "copyNodeValue" \in flags THEN AssignMembers(to, s.m, {"m_logOfRight", "m_leftDivRight"}) ELSE to

MatrixL1Reg_CopyTo(s, to, flags) ==
    IF "copyNodeValue" \in flags THEN AssignMembers(to, s.m, {"m_gradientOfL1Norm"}) ELSE to

CRF_CopyTo(s, to, flags) ==
    IF "copyNodeValue" \in flags
    THEN AssignMembers(to, s.m, {"mAlpha", "mBeta", "mPostProb", "mStartLbl", "mEndLbl"}) ELSE to

\* The other nodes do not override CopyTo: Base::CopyTo writes no member of
\* the derived class.
DoCopyTo(n, s, to, flags) ==
    CASE n = "SquareError" -> SquareError_CopyTo(s, to, flags)
      [] n = "CrossEntropyWithSoftmax" -> CrossEntropyWithSoftmax_CopyTo(s, to, flags)
      [] n = "CrossEntropy" -> CrossEntropy_CopyTo(s, to, flags)
      [] n = "MatrixL1Reg" -> MatrixL1Reg_CopyTo(s, to, flags)
      [] n = "CRF" -> CRF_CopyTo(s, to, flags)
      [] OTHER -> to

Self == [err |-> FALSE, m_children |-> m_children, FunctionValues |-> FunctionValues,
         GradientValues |-> GradientValues, m |-> m, m_pMBLayout |-> m_pMBLayout]

DoValidate(n, s) ==
    CASE n = "SquareError" -> SquareError_Validate(s)
      [] n = "CrossEntropyWithSoftmax" -> CrossEntropyWithSoftmax_Validate(s)
      [] n = "CrossEntropy" -> CrossEntropy_Validate(s)
      [] n = "MatrixL1Reg" -> MatrixL1Reg_Validate(s)
      [] n = "MatrixL2Reg" -> MatrixL2Reg_Validate(s)
      [] n = "NCEBasedCrossEntropyWithSoftmax" -> NCE_Validate(s)
      [] n = "ClassBasedCrossEntropyWithSoftmax" -> ClassBased_Validate(s)
      [] n = "CRF" -> CRF_Validate(s)
      [] OTHER -> DummyCriterion_Validate(s)

DoEvaluateThisNode(n, s) ==
    CASE n = "SquareError" -> SquareError_EvaluateThisNode(s)
      [] n = "CrossEntropyWithSoftmax" -> CrossEntropyWithSoftmax_EvaluateThisNode(s)
      [] n = "CrossEntropy" -> CrossEntropy_EvaluateThisNode(s)
      [] n = "MatrixL1Reg" -> MatrixL1Reg_EvaluateThisNode(s)
      [] n = "MatrixL2Reg" -> MatrixL2Reg_EvaluateThisNode(s)
      [] n = "NCEBasedCrossEntropyWithSoftmax" -> NCE_EvaluateThisNode(s)
      [] n = "ClassBasedCrossEntropyWithSoftmax" -> ClassBased_EvaluateThisNode(s)
      [] n = "CRF" -> CRF_EvaluateThisNode(s)
      [] OTHER -> DummyCriterion_EvaluateThisNode(s)

DoComputeInputPartial(n, s, inputIndex, ub) ==
    CASE n = "SquareError" -> SquareError_ComputeInputPartial(s, inputIndex)
      [] n = "CrossEntropyWithSoftmax" -> CrossEntropyWithSoftmax_ComputeInputPartial(s, inputIndex)
      [] n = "CrossEntropy" -> CrossEntropy_ComputeInputPartial(s, inputIndex)
      [] n = "MatrixL1Reg" -> MatrixL1Reg_ComputeInputPartial(s, inputIndex)
      [] n = "MatrixL2Reg" -> MatrixL2Reg_ComputeInputPartial(s, inputIndex)
      [] n = "NCEBasedCrossEntropyWithSoftmax" -> NCE_ComputeInputPartial(s, inputIndex, ub)
      [] n = "ClassBasedCrossEntropyWithSoftmax" -> ClassBased_ComputeInputPartial(s, inputIndex, ub)
      [] n = "CRF" -> CRF_ComputeInputPartial(s, inputIndex)
      [] OTHER -> DummyCriterion_ComputeInputPartial(s, inputIndex)

\* Whether the variant rejects inputIndex before it touches anything.
NoPartial(n, s, inputIndex) ==
    CASE n = "SquareError" -> SquareError_NoPartial(inputIndex)
      [] n = "CrossEntropyWithSoftmax" -> CrossEntropyWithSoftmax_NoPartial(inputIndex)
      [] n = "CrossEntropy" -> CrossEntropy_NoPartial(inputIndex)
      [] n = "MatrixL1Reg" -> MatrixL1Reg_NoPartial(inputIndex)
      [] n = "MatrixL2Reg" -> MatrixL2Reg_NoPartial(inputIndex)
      [] n = "NCEBasedCrossEntropyWithSoftmax" -> NCE_NoPartial(s, inputIndex)
      [] n = "ClassBasedCrossEntropyWithSoftmax" -> ClassBased_NoPartial(inputIndex)
      [] n = "CRF" -> CRF_NoPartial(inputIndex)
      [] OTHER -> DummyCriterion_NoPartial(inputIndex)

\* The state the handler leaves becomes the state of the node.
Leaves(r) ==
    /\ m_children' = r.m_children
    /\ FunctionValues' = r.FunctionValues
    /\ GradientValues' = r.GradientValues
    /\ m' = r.m

Op(name, idx, err, branch, ub, raw) ==
    [op |-> name, idx |-> idx, err |-> err, branch |-> branch, ub |-> ub, raw |-> raw]

(***************************************************************************)
(* Actions: one per node operation.                                        *)
(***************************************************************************)
Validate ==
    /\ ~validated
    /\ LET r == DoValidate(node, Self)
       IN /\ Leaves(r)
          /\ validated' = ~r.err
          /\ last' = Op("Validate", -1, r.err, "none", "none", 0)
    /\ UNCHANGED <<node, m_pMBLayout, build, fstream, calls, evaluated, GetDeviceId, nodeP>>

EvaluateThisNode ==
    /\ validated
    /\ calls < MaxCalls
    /\ LET r == DoEvaluateThisNode(node, Self)
       IN /\ Leaves(r)
          /\ last' = Op("EvaluateThisNode", -1, r.err,
                        IF node = "NCEBasedCrossEntropyWithSoftmax" THEN NCE_Branch(Self) ELSE "none",
                        "none", 0)
          /\ evaluated' = (evaluated \/ ~r.err)
    /\ calls' = calls + 1
    /\ UNCHANGED <<node, m_pMBLayout, build, fstream, validated, GetDeviceId, nodeP>>

ComputeInputPartial ==
    /\ validated
    /\ calls < MaxCalls
    /\ \E inputIndex \in 0 .. MaxIndex :
       \E ub \in IF \/ /\ node = "NCEBasedCrossEntropyWithSoftmax"
                       /\ ~NCE_NoPartial(Self, inputIndex) /\ inputIndex >= NumInputs(Self)
                    \/ /\ node = "ClassBasedCrossEntropyWithSoftmax"
                       /\ ~ClassBased_NoPartial(inputIndex) /\ CB_WordIndexOutside(Self)
                 THEN {"stop", "wild"} ELSE {"none"} :
          LET r == DoComputeInputPartial(node, Self, inputIndex, ub)
          IN /\ Leaves(r)
             /\ last' = Op("ComputeInputPartial", inputIndex, r.err, "none", ub, 0)
    /\ calls' = calls + 1
    /\ UNCHANGED <<node, m_pMBLayout, build, fstream, validated, evaluated, GetDeviceId, nodeP>>

\* Serialization of the node (when the network is written to or read from a
\* model file).  The file holds mode values, one per slot of SizeofEvalMode bytes.
SaveToFile ==
    /\ node = "NCEBasedCrossEntropyWithSoftmax"
    /\ fstream.pos + SizeofEvalMode <= MaxSlots * SizeofEvalMode
    /\ fstream' = NCE_SaveToFile(Self, fstream)
    /\ last' = Op("SaveToFile", fstream.pos, FALSE, "none", "none", m.m_evalMode)
    /\ UNCHANGED <<node, m_children, FunctionValues, GradientValues, m, m_pMBLayout,
                   build, validated, calls, evaluated, GetDeviceId, nodeP>>

LoadFromFile ==
    /\ node = "NCEBasedCrossEntropyWithSoftmax"
    /\ fstream.pos + SizeofEvalMode <= Len(fstream.bytes)
    /\ LET l == NCE_LoadFromFile(fstream)
       IN /\ m' = [m EXCEPT !.m_evalMode = l.m_evalMode]
          /\ fstream' = l.fstream
          /\ last' = Op("LoadFromFile", fstream.pos, FALSE, "none", "none", l.raw)
    /\ UNCHANGED <<node, m_children, FunctionValues, GradientValues, m_pMBLayout,
                   build, validated, calls, evaluated, GetDeviceId, nodeP>>

\* File::SetPosition, by whoever drives the file, to the start of a slot.
SetPosition ==
    /\ node = "NCEBasedCrossEntropyWithSoftmax"
    /\ \E slot \in 0 .. (MaxSlots - 1) :
          /\ slot * SizeofEvalMode <= Len(fstream.bytes)
          /\ slot * SizeofEvalMode # fstream.pos
          /\ fstream' = [fstream EXCEPT !.pos = slot * SizeofEvalMode]
          /\ last' = Op("SetPosition", slot * SizeofEvalMode, FALSE, "none", "none", 0)
    /\ UNCHANGED <<node, m_children, FunctionValues, GradientValues, m, m_pMBLayout,
                   build, validated, calls, evaluated, GetDeviceId, nodeP>>

(***************************************************************************)
(* Construction: the node after its constructor and AttachInputs, with the *)
(* tensors its input nodes hold.                                           *)
(***************************************************************************)
FromRows(rows) == Mat(Len(rows), Len(rows[1]), LAMBDA i, j : rows[i + 1][j + 1])

Leaf(op, F, g0) ==
    [OperationName |-> op, FunctionValues |-> F,
     GradientValues |-> Fill(F.rows, F.cols, g0), DeviceId |-> CPUDEVICE]

Children(seq) == [i \in 0 .. (Len(seq) - 1) |-> seq[i + 1]]

\* Gradients accumulated so far by the other consumers of an input.
PriorGradients == {0, 5}

TwoInputChildren ==
    LET row   == FromRows(<<<<1, 0>>>>)
        right == FromRows(<<<<2, 1>>>>)
        hot   == FromRows(<<<<0, 1>>, <<1, 0>>>>)
        sq    == FromRows(<<<<1, 2>>, <<3, 1>>>>)
    IN UNION {{Children(<<Leaf("InputValue", row, g0), Leaf("Times", right, g0)>>),
               Children(<<Leaf("InputValue", hot, g0), Leaf("Times", sq, g0)>>),
               Children(<<Leaf("InputValue", row, g0), Leaf("LearnableParameter", EmptyMat, g0)>>),
               Children(<<Leaf("InputValue", row, g0), Leaf("Times", sq, g0)>>),
               Children(<<Leaf("Times", row, g0), Leaf("Times", right, g0)>>),
               Children(<<Leaf("InputValue", sq, g0), Leaf("Times", sq, g0)>>),
               Children(<<Leaf("InputValue", row, g0)>>)} : g0 \in PriorGradients}

OneInputChildren ==
    UNION {{Children(<<Leaf("LearnableParameter", FromRows(<<<<1, -2>>>>), g0)>>),
            Children(<<Leaf("LearnableParameter", FromRows(<<<<3, 0>>, <<0, 4>>>>), g0)>>),
            Children(<<Leaf("LearnableParameter", EmptyMat, g0)>>),
            Children(<<Leaf("LearnableParameter", FromRows(<<<<1, -2>>>>), g0),
                       Leaf("LearnableParameter", FromRows(<<<<1, -2>>>>), g0)>>)} : g0 \in PriorGradients}

DummyChildren ==
    LET obj == FromRows(<<<<3>>>>)
        der == FromRows(<<<<1, 2>>>>)
        prd == FromRows(<<<<0, 1>>>>)
    IN UNION {{Children(<<Leaf("InputValue", obj, g0), Leaf("InputValue", der, g0), Leaf("Times", prd, g0)>>),
               Children(<<Leaf("InputValue", obj, g0), Leaf("InputValue", obj, g0), Leaf("Times", prd, g0)>>),
               Children(<<Leaf("InputValue", der, g0), Leaf("InputValue", der, g0), Leaf("Times", prd, g0)>>),
               Children(<<Leaf("InputValue", obj, g0), Leaf("Times", der, g0), Leaf("Times", prd, g0)>>),
               Children(<<Leaf("InputValue", obj, g0), Leaf("InputValue", der, g0)>>)} : g0 \in PriorGradients}

\* NCE: labels (word ids, signed), hidden [1 x T], weight [1 x V], bias [1 x V].
NCEChildren(labels, g0) ==
    Children(<<Leaf("InputValue", labels, g0),
               Leaf("Times", FromRows(<<<<1, 2>>>>), g0),
               Leaf("LearnableParameter", FromRows(<<<<1, 0, 2>>>>), g0),
               Leaf("LearnableParameter", FromRows(<<<<0, 1, 0>>>>), g0)>>)

NCEMembers(mode, flag) ==
    [m_logSoftmax |-> EmptyMat, m_softMax |-> EmptyMat, m_grdToSoftMaxInput |-> EmptyMat,
     m_ncePrediction |-> EmptyMat, m_evalMode |-> mode,
     m_needRecomputeGradientToSoftmaxInput |-> flag]

\* Class-based: labels [4 x T] (word, class, left, right), hidden [1 x T],
\* weight [1 x 3], class scores [2 x T]; classes {0, 1} and {2}.  The labels
\* name a word of each class, leave column 1 without a label (skip), name a
\* word of an empty class (empty) or a word outside the class (wrong).
ClassBasedChildren ==
    LET hidden == FromRows(<<<<1, 2>>>>)
        weight == FromRows(<<<<1, 0, 1>>>>)
        cls    == FromRows(<<<<1, 0>>, <<0, 1>>>>)
        both   == FromRows(<<<<1, 2>>, <<0, 1>>, <<0, 2>>, <<2, 3>>>>)
        skip   == FromRows(<<<<1, 0>>, <<0, 0>>, <<0, 0>>, <<2, 0>>>>)
        empty  == FromRows(<<<<1, 1>>, <<0, 0>>, <<0, 0>>, <<2, 0>>>>)
        wrong  == FromRows(<<<<2, 2>>, <<0, 1>>, <<0, 2>>, <<2, 3>>>>)
        mk(labels, g0, dev) ==
            Children(<<[Leaf("InputValue", labels, g0) EXCEPT !.DeviceId = dev],
                       Leaf("Times", hidden, g0), Leaf("LearnableParameter", weight, g0),
                       Leaf("Times", cls, g0)>>)
    IN UNION {{mk(both, g0, CPUDEVICE), mk(skip, g0, CPUDEVICE), mk(empty, g0, CPUDEVICE),
               mk(wrong, g0, CPUDEVICE), mk(both, g0, 0)} : g0 \in PriorGradients}

ClassBasedMembers(words, flag) ==
    [m_logSoftmax |-> EmptyMat, m_softMax |-> EmptyMat, m_clsLogSoftmax |-> EmptyMat,
     m_clsSoftmax |-> EmptyMat, m_grdToSoftMaxInput |-> EmptyMat, m_nbrCls |-> 0,
     m_totalNbrWords |-> words, m_needRecomputeGradientToSoftmaxInput |-> flag]

\* CRF: labels (one-hot columns), position scores and pair scores as weights;
\* the gradients of its inputs are fractions.
CRFLeaf(op, F, g0) == [Leaf(op, F, 0) EXCEPT !.GradientValues = Fill(F.rows, F.cols, FracOfInt(g0))]

CRFChildren(lbls, pos_scores, pair_scores, g0) ==
    Children(<<CRFLeaf("InputValue", lbls, g0), CRFLeaf("Times", pos_scores, g0),
               CRFLeaf("LearnableParameter", pair_scores, g0)>>)

CRFMembers(firstLbl, lastLbl) ==
    [mAlpha |-> EmptyMat, mBeta |-> EmptyMat, mPostProb |-> EmptyMat,
     mStartLbl |-> firstLbl, mEndLbl |-> lastLbl]

\* The configurations of a node: [node, m_children, m].
Config(n, ch, members) == [node |-> n, m_children |-> ch, m |-> members]

\* Members the constructor leaves uninitialized hold whatever the memory held.
ElementwiseConfigs ==
    {Config("SquareError", ch, [m_leftMinusRight |-> EmptyMat]) : ch \in TwoInputChildren}
    \cup {Config("CrossEntropyWithSoftmax", ch,
                 [m_logSoftmaxOfRight |-> EmptyMat, m_softmaxOfRight |-> EmptyMat]) : ch \in TwoInputChildren}
    \cup {Config("CrossEntropy", ch,
                 [m_logOfRight |-> EmptyMat, m_leftDivRight |-> EmptyMat]) : ch \in TwoInputChildren}
    \cup {Config("MatrixL1Reg", ch, [m_gradientOfL1Norm |-> EmptyMat]) : ch \in OneInputChildren}
    \cup {Config("MatrixL2Reg", ch, [m_temp |-> EmptyMat]) : ch \in OneInputChildren}
    \cup {Config("DummyCriterion", ch, <<>>) : ch \in DummyChildren}

NCELabels ==
    {FromRows(<<<<1, 2>>>>), FromRows(<<<<-1, -2>>>>), FromRows(<<<<1, -2>>>>),
     FromRows(<<<<0, 0>>>>), FromRows(<<<<1, 0>>>>), FromRows(<<<<1, -2>>, <<1, 1>>>>)}

NCEConfigs(labels, modes) ==
    {Config("NCEBasedCrossEntropyWithSoftmax", NCEChildren(l, g0), NCEMembers(mode, flag)) :
        <<l, g0, mode, flag>> \in labels \X PriorGradients \X modes \X BOOLEAN}

ClassBasedConfigs ==
    {Config("ClassBasedCrossEntropyWithSoftmax", ch, ClassBasedMembers(words, flag)) :
        <<ch, words, flag>> \in ClassBasedChildren \X {0, 3} \X BOOLEAN}

CRFConfigs(triples) ==
    {Config("CRF", CRFChildren(x[1], x[2], x[3], g0), CRFMembers(e[1], e[2])) :
        <<x, g0, e>> \in triples \X PriorGradients \X {<<-1, -1>>, <<1, 0>>}}

\* Two labels: a valid triple of two positions, one whose pair scores are not
\* square, and a valid triple of four columns (two sequences of two positions
\* under a layout of two parallel sequences).
CRFSmall ==
    {<<FromRows(<<<<1, 0>>, <<0, 1>>>>), FromRows(<<<<1, 2>>, <<1, 1>>>>), FromRows(<<<<1, 2>>, <<1, 1>>>>)>>,
     <<FromRows(<<<<1, 0>>, <<0, 1>>>>), FromRows(<<<<1, 2>>, <<1, 1>>>>), FromRows(<<<<1, 2>>>>)>>,
     <<FromRows(<<<<1, 0, 1, 0>>, <<0, 1, 0, 1>>>>), FromRows(<<<<1, 2, 1, 1>>, <<1, 1, 2, 1>>>>),
       FromRows(<<<<1, 2>>, <<1, 1>>>>)>>}

\* Minibatch layouts: one sequence or two parallel ones, no column flagged
\* or column 1 flagged NoLabel.
Layouts ==
    {[nS |-> 1, noLabel |-> {}], [nS |-> 1, noLabel |-> {<<0, 1>>}],
     [nS |-> 2, noLabel |-> {}], [nS |-> 2, noLabel |-> {<<1, 0>>}]}

Builds == [enumSigned : BOOLEAN, ndebug : BOOLEAN]

UpstreamGradients == {1, 2}

NoFile == [bytes |-> <<>>, pos |-> 0, saved |-> {}]

\* The members of a node that has been in use: every scratch matrix holds
\* one element of its own.
UsedMembers(n, members) ==
    [x \in DOMAIN members |->
        IF x \in ScratchMatrices(n)
        THEN Fill(1, 1, IF x \in {"mBeta", "mPostProb"} THEN FracOfInt(7) ELSE 7)
        ELSE members[x]]

\* The node is constructed on one of the devices; the node CopyTo() writes
\* to is of the same class, freshly constructed or in use.
ConstructedOn(configs, layouts, builds, files, devices, used) ==
    /\ \E c \in configs : node = c.node /\ m_children = c.m_children /\ m = c.m
    /\ FunctionValues = EmptyMat
    /\ \E g \in UpstreamGradients : GradientValues = Fill(1, 1, g)
    /\ m_pMBLayout \in layouts
    /\ build \in builds
    /\ fstream \in files
    /\ validated = FALSE
    /\ evaluated = FALSE
    /\ \E deviceId \in devices : GetDeviceId = [x \in OwnedMatrices(node) |-> deviceId]
    /\ \E u \in used : nodeP = IF u THEN UsedMembers(node, m) ELSE m
    /\ calls = 0
    /\ last = Op("Init", -1, FALSE, "none", "none", 0)

Constructed(configs, layouts, builds, files) ==
    ConstructedOn(configs, layouts, builds, files, {CPUDEVICE}, {FALSE})

Init ==
    Constructed(ElementwiseConfigs \cup NCEConfigs({FromRows(<<<<1, 2>>>>), FromRows(<<<<0, 0>>>>)}, {Softmax, Unnormalized, None})
                    \cup ClassBasedConfigs \cup CRFConfigs(CRFSmall),
                Layouts, {[enumSigned |-> TRUE, ndebug |-> FALSE], [enumSigned |-> FALSE, ndebug |-> TRUE]},
                {NoFile})

Next == Validate \/ EvaluateThisNode \/ ComputeInputPartial

Spec == Init /\ [][Next]_vars

\* The NCE node alone, over every label convention, mode and build.
InitNCE ==
    Constructed(NCEConfigs(NCELabels, {Softmax, Unnormalized, None}),
                {[nS |-> 1, noLabel |-> {}]}, Builds, {NoFile})

SpecNCE == InitNCE /\ [][Next]_vars

\* The NCE node and a model file: the file holds one mode value when the
\* node is constructed, written by this or by some other program.
RawModes == {-1, 0, 1, 2, 3}

InitFile ==
    Constructed(NCEConfigs({FromRows(<<<<1, 2>>>>)}, {Softmax, Unnormalized, None}),
                {[nS |-> 1, noLabel |-> {}]}, Builds,
                {[bytes |-> EncodeInt32(raw), pos |-> 0, saved |-> {}] : raw \in RawModes})

\* The CRF node on one sequence: up to MaxLabels labels and MaxLength
\* positions, label paths t -> (t + a) % L and the constant path, position
\* and pair scores all equal or varying with label and position.
OneHot(L, T, path(_)) == Mat(L, T, LAMBDA k, t : IF k = path(t) THEN 1 ELSE 0)

CRFTriples ==
    UNION {UNION {
        LET paths == {OneHot(L, T, LAMBDA t : (t + a) % L) : a \in {0, 1}}
                         \cup {OneHot(L, T, LAMBDA t : 0)}
            poss  == {Fill(L, T, 1), Mat(L, T, LAMBDA k, t : 1 + ((k + t) % 2))}
            pairs == {Fill(L, L, 1), Mat(L, L, LAMBDA k, j : 1 + ((k + 2 * j) % 3))}
        IN paths \X poss \X pairs : T \in 1 .. MaxLength} : L \in 1 .. MaxLabels}

InitCRF ==
    Constructed(CRFConfigs(CRFTriples), {[nS |-> 1, noLabel |-> {}]},
                {b \in Builds : b.enumSigned}, {NoFile})

SpecCRF == InitCRF /\ [][Next]_vars

\* The devices a node can be placed on: the CPU and two GPUs.
Devices == {CPUDEVICE, 0, 1}

CopyNodeFlags == SUBSET {"copyNodeValue", "copyNodeChildren"}

\* MoveMatricesToDevice(deviceId); last.idx holds the device.
MoveMatricesToDevice ==
    /\ \E deviceId \in Devices :
          /\ GetDeviceId' = DoMoveMatricesToDevice(node, GetDeviceId, deviceId)
          /\ last' = Op("MoveMatricesToDevice", deviceId, FALSE, "none", "none", 0)
    /\ UNCHANGED <<node, m_children, FunctionValues, GradientValues, m, m_pMBLayout,
                   build, fstream, validated, calls, evaluated, nodeP>>

\* CopyTo(nodeP, newName, flags); last.branch tells whether copyNodeValue is set.
CopyTo ==
    /\ \E flags \in CopyNodeFlags :
          /\ nodeP' = DoCopyTo(node, Self, nodeP, flags)
          /\ last' = Op("CopyTo", -1, FALSE,
                        IF "copyNodeValue" \in flags THEN "copyNodeValue" ELSE "none", "none", 0)
    /\ UNCHANGED <<node, m_children, FunctionValues, GradientValues, m, m_pMBLayout,
                   build, fstream, validated, calls, evaluated, GetDeviceId>>

\* Every node class, constructed on the CPU or on a GPU, moved between
\* devices and copied to a fresh or a used node of its class.
InitOwned ==
    ConstructedOn(ElementwiseConfigs \cup NCEConfigs({FromRows(<<<<1, 2>>>>)}, {Softmax})
                      \cup ClassBasedConfigs \cup CRFConfigs(CRFSmall),
                  {[nS |-> 1, noLabel |-> {}]}, {[enumSigned |-> TRUE, ndebug |-> FALSE]},
                  {NoFile}, {CPUDEVICE, 0}, BOOLEAN)

NextOwned == Validate \/ EvaluateThisNode \/ MoveMatricesToDevice \/ CopyTo

SpecOwned == InitOwned /\ [][NextOwned]_vars

NextFile == SaveToFile \/ LoadFromFile \/ SetPosition

SpecNCEFile == InitFile /\ [][NextFile]_vars

(***************************************************************************)
(* Properties.                                                             *)
(***************************************************************************)
\* A step of the named operation (every such step counts one more call).
StepOf(name) == calls' = calls + 1 /\ last'.op = name

ZeroOf(n) == IF n = "CRF" THEN FracOfInt(0) ELSE 0

TensorAdd(n, A, B) ==
    Mat(A.rows, A.cols,
        LAMBDA i, j : IF n = "CRF" THEN FracAdd(At(A, i, j), At(B, i, j)) ELSE At(A, i, j) + At(B, i, j))

\* The contribution D of computeGradient(i): what the call leaves in input i's
\* gradient tensor when that tensor holds zeros before the call.
Contribution(n, s, i, ub) ==
    LET G == Inputs(s, i).GradientValues
    IN DoComputeInputPartial(n, WithInputGradient(s, i, Fill(G.rows, G.cols, ZeroOf(n))), i, ub)
           .m_children[i].GradientValues

\* C1: computeGradient(i) adds into input i's gradient tensor: if the tensor
\* held G before a call that completes, it holds G + D afterwards, where D is
\* the contribution of the call and does not depend on G.
C1_GradientAccumulates ==
    [][(StepOf("ComputeInputPartial") /\ ~last'.err /\ last'.idx \in DOMAIN m_children)
       => m_children'[last'.idx].GradientValues
            = TensorAdd(node, m_children[last'.idx].GradientValues,
                        Contribution(node, Self, last'.idx, last'.ub))]_vars

\* The inputs of each variant whose columns are the columns of the batch.
BatchInputs(n) ==
    CASE n \in {"SquareError", "CrossEntropyWithSoftmax", "CrossEntropy"} -> {0, 1}
      [] n \in {"MatrixL1Reg", "MatrixL2Reg"} -> {0}
      [] n = "NCEBasedCrossEntropyWithSoftmax" -> {0, 1}
      [] n = "ClassBasedCrossEntropyWithSoftmax" -> {0, 1, 3}
      [] n = "CRF" -> {0, 1}
      [] OTHER -> {1, 2}

RemoveColumn(M, c) == Mat(M.rows, M.cols - 1, LAMBDA i, j : At(M, i, IF j < c THEN j ELSE j + 1))

\* The same batch with column c removed, and no column flagged.
WithoutColumn(n, s, c) ==
    [s EXCEPT !.m_children = [i \in DOMAIN s.m_children |->
                                 IF i \in BatchInputs(n)
                                 THEN [s.m_children[i] EXCEPT
                                          !.FunctionValues = RemoveColumn(@, c),
                                          !.GradientValues = RemoveColumn(@, c)]
                                 ELSE s.m_children[i]],
              !.m_pMBLayout = [s.m_pMBLayout EXCEPT !.noLabel = {}]]

\* One sequence in the batch, and exactly the column c flagged invalid.
OnlyInvalidColumn(c) ==
    /\ m_pMBLayout.nS = 1
    /\ MaskedColumns(m_pMBLayout) = {c}
    /\ \A i \in BatchInputs(node) \cap DOMAIN m_children : c < GetNumCols(m_children[i].FunctionValues)

\* C2: with one column of the batch flagged invalid, the output of a forward
\* pass that completes equals the output on the batch without that column,
\* and a gradient pass that completes adds nothing to the flagged column of
\* the gradient of an input whose columns are the batch's.
C2_InvalidColumnContributesNothing ==
    [][\A c \in 0 .. 1 : OnlyInvalidColumn(c) =>
          /\ (StepOf("EvaluateThisNode") /\ ~last'.err)
                => FunctionValues' = DoEvaluateThisNode(node, WithoutColumn(node, Self, c)).FunctionValues
          /\ (StepOf("ComputeInputPartial") /\ ~last'.err /\ last'.idx \in BatchInputs(node))
                => ColumnSlice(m_children'[last'.idx].GradientValues, c, 1)
                     = ColumnSlice(m_children[last'.idx].GradientValues, c, 1)]_vars

\* C3: a forward pass leaves the function values of every input unchanged.
C3_ForwardLeavesInputsUnchanged ==
    [][StepOf("EvaluateThisNode")
       => \A i \in DOMAIN m_children : m_children'[i].FunctionValues = m_children[i].FunctionValues]_vars

\* C4: once Validate has succeeded the output tensor is 1 x 1, whatever
\* forward and gradient passes follow.
C4_OutputIsScalar == validated => GetNumRows(FunctionValues) = 1 /\ GetNumCols(FunctionValues) = 1

C4_Witness ==
    /\ validated /\ calls >= 2 /\ last.op = "ComputeInputPartial" /\ ~last.err
    /\ node = "CRF" /\ GetNumCols(m.mAlpha) > 0
    /\ GetNumRows(FunctionValues) = 1 /\ GetNumCols(FunctionValues) = 1

\* The input indices the variants have no derivative for.
NoDerivative(n, i) ==
    CASE n \in {"SquareError", "CrossEntropy", "CrossEntropyWithSoftmax"} -> i > 1
      [] n \in {"MatrixL1Reg", "MatrixL2Reg"} -> i # 0
      [] n = "ClassBasedCrossEntropyWithSoftmax" -> i \notin {1, 2, 3}
      [] n = "CRF" -> i \notin {1, 2}
      [] n = "DummyCriterion" -> i # 2
      [] OTHER -> FALSE

\* C9: a gradient pass for an input index without a derivative fails and
\* leaves every input gradient tensor and the node's scratch members as
\* they were (SquareError, CrossEntropy, CrossEntropyWithSoftmax,
\* MatrixL1Reg, MatrixL2Reg, ClassBased, CRF, DummyCriterion).
C9_InvalidIndexFailsCleanly ==
    [][(StepOf("ComputeInputPartial") /\ NoDerivative(node, last'.idx))
       => /\ last'.err
          /\ \A i \in DOMAIN m_children : m_children'[i].GradientValues = m_children[i].GradientValues
          /\ m' = m]_vars

C9_Witness ==
    /\ last.op = "ComputeInputPartial" /\ last.err /\ last.idx = 0
    /\ node = "ClassBasedCrossEntropyWithSoftmax"
    /\ m.m_needRecomputeGradientToSoftmaxInput /\ GetNumCols(m.m_softMax) > 0
    /\ \E i \in DOMAIN m_children : At(m_children[i].GradientValues, 0, 0) # 0

\* C5: a mode written by SaveToFile is the mode LoadFromFile reads back, for
\* Softmax, Unnormalized and None, and the load leaves the stream just past
\* the value.
C5_ModeRoundTrips ==
    last.op = "LoadFromFile"
    => \A mode \in {Softmax, Unnormalized, None} :
          <<last.idx, mode>> \in fstream.saved
          => m.m_evalMode = mode /\ fstream.pos = last.idx + SizeofEvalMode

C5_Witness ==
    /\ last.op = "LoadFromFile" /\ last.idx = SizeofEvalMode
    /\ fstream.saved = {<<0, Softmax>>, <<SizeofEvalMode, Unnormalized>>}
    /\ m.m_evalMode = Unnormalized
    /\ fstream.pos = 2 * SizeofEvalMode

\* C6: a load of a raw value other than 0, 1, 2 leaves the mode None and the
\* stream where the value starts (one width before the end of the read);
\* after every load the mode is Softmax, Unnormalized or None.
C6_OutOfRangeBecomesNone ==
    last.op = "LoadFromFile"
    => /\ m.m_evalMode \in {Softmax, Unnormalized, None}
       /\ last.raw \notin {Softmax, Unnormalized, None}
             => m.m_evalMode = None /\ fstream.pos = last.idx

\* The sign convention of a single-row label input.
SingleRow(labels) == GetNumRows(labels) = 1

SomePositive(labels) == \E t \in 0 .. (GetNumCols(labels) - 1) : At(labels, 0, t) > 0

AllPositive(labels) == \A t \in 0 .. (GetNumCols(labels) - 1) : At(labels, 0, t) > 0

SomeNegative(labels) == \E t \in 0 .. (GetNumCols(labels) - 1) : At(labels, 0, t) < 0

ByMode(mode) ==
    IF mode = Softmax THEN "softmax" ELSE IF mode = Unnormalized THEN "unnormalized" ELSE "nce"

NCEForwardDone ==
    node = "NCEBasedCrossEntropyWithSoftmax" /\ last.op = "EvaluateThisNode" /\ ~last.err

\* C7 as stated: with a single-row label input, all-positive labels select
\* softmax and any negative label selects unnormalized, whatever the mode;
\* otherwise the mode selects the branch.
C7_SignOverridesMode ==
    NCEForwardDone
    => LET labels == m_children[0].FunctionValues
       IN last.branch =
            IF SingleRow(labels) /\ AllPositive(labels) THEN "softmax"
            ELSE IF SingleRow(labels) /\ SomeNegative(labels) THEN "unnormalized"
            ELSE ByMode(m.m_evalMode)

\* C7 amended: a forward pass that completes takes softmax when the mode is
\* Softmax or a single-row label input has a positive entry; otherwise
\* unnormalized when the mode is Unnormalized or a single-row label input has
\* a negative entry; otherwise nce.
C7_BranchSelection ==
    NCEForwardDone
    => LET labels == m_children[0].FunctionValues
       IN last.branch =
            IF m.m_evalMode = Softmax \/ (SingleRow(labels) /\ SomePositive(labels)) THEN "softmax"
            ELSE IF m.m_evalMode = Unnormalized \/ (SingleRow(labels) /\ SomeNegative(labels))
            THEN "unnormalized"
            ELSE "nce"

C7_Witness ==
    /\ NCEForwardDone
    /\ m.m_evalMode = Softmax
    /\ SingleRow(m_children[0].FunctionValues)
    /\ SomeNegative(m_children[0].FunctionValues) /\ ~SomePositive(m_children[0].FunctionValues)
    /\ last.branch = "softmax"
    /\ GetNumCols(m.m_logSoftmax) > 0

\* C8: on the NCE node a gradient pass for an input index outside {1, 2, 3}
\* (index 0, index 4 and above) fails.
C8_OnlyHiddenWeightBias ==
    (node = "NCEBasedCrossEntropyWithSoftmax" /\ last.op = "ComputeInputPartial"
        /\ last.idx \notin {1, 2, 3})
    => last.err

\* Brute force over the label paths: a path p scores the sum of its position
\* scores plus the pair scores between consecutive positions (as weights:
\* the product).
PathScore(p, pos_scores, pair_scores) ==
    LET T == GetNumCols(pos_scores)
    IN ProdFn([t \in 0 .. (T - 1) |-> At(pos_scores, p[t], t)], 0 .. (T - 1))
       * ProdFn([t \in 0 .. (T - 2) |-> At(pair_scores, p[t + 1], p[t])], 0 .. (T - 2))

AllPaths(L, T) == [0 .. (T - 1) -> 0 .. (L - 1)]

BruteForce(lbls, pos_scores, pair_scores) ==
    LET L == GetNumRows(lbls)
        T == GetNumCols(lbls)
        truePath == [t \in 0 .. (T - 1) |-> CRF_LabelAt(lbls, t)]
    IN Frac(SumFn([p \in AllPaths(L, T) |-> PathScore(p, pos_scores, pair_scores)], AllPaths(L, T)),
            PathScore(truePath, pos_scores, pair_scores))

\* C10: on one sequence of at most MaxLength positions over at most
\* MaxLabels labels, the output of a forward pass of the CRF node is the
\* negative of (score of the labelled path - log-sum of the scores of all
\* paths), every path scored by the same rule.
C10_ForwardEqualsBruteForce ==
    (node = "CRF" /\ last.op = "EvaluateThisNode" /\ ~last.err /\ m_pMBLayout.nS = 1
        /\ GetNumRows(m_children[0].FunctionValues) <= MaxLabels
        /\ GetNumCols(m_children[0].FunctionValues) <= MaxLength)
    => Get00Element(FunctionValues)
         = BruteForce(m_children[0].FunctionValues, m_children[1].FunctionValues,
                      m_children[2].FunctionValues)

\* C11: on a sequence of one position with one active label k, a forward
\* pass of the CRF node leaves alpha(k, 0) = pos_scores(k, 0) and the output
\* -pos_scores(k, 0) + log-sum over j of pos_scores(j, 0) (scores as weights:
\* the sum of the weights over the weight of k).
C11_LengthOneIsPositionScore ==
    (node = "CRF" /\ last.op = "EvaluateThisNode" /\ ~last.err /\ m_pMBLayout.nS = 1
        /\ GetNumCols(m_children[0].FunctionValues) = 1)
    => LET pos_scores == m_children[1].FunctionValues
           k == CRF_LabelAt(m_children[0].FunctionValues, 0)
           labels == 0 .. (GetNumRows(pos_scores) - 1)
       IN /\ At(m.mAlpha, k, 0) = At(pos_scores, k, 0)
          /\ Get00Element(FunctionValues)
               = Frac(SumFn([j \in labels |-> At(pos_scores, j, 0)], labels), At(pos_scores, k, 0))

SameShape(A, B) == GetNumRows(A) = GetNumRows(B) /\ GetNumCols(A) = GetNumCols(B)

\* Two inputs of one non-empty shape, as they are when Validate is called.
TwoEqualNonEmptyInputs ==
    /\ DOMAIN m_children = {0, 1}
    /\ ~HasNoElements(m_children[0].FunctionValues)
    /\ ~HasNoElements(m_children[1].FunctionValues)
    /\ SameShape(m_children[0].FunctionValues, m_children[1].FunctionValues)

\* C12: Validate of SquareError fails unless the node has two inputs that
\* have, when Validate is called, one non-empty shape; and it leaves the
\* shape of every input as it was.
C12_SquareErrorValidate ==
    [][(node = "SquareError" /\ last'.op = "Validate")
       => /\ ~TwoEqualNonEmptyInputs => last'.err
          /\ \A i \in DOMAIN m_children :
                SameShape(m_children'[i].FunctionValues, m_children[i].FunctionValues)]_vars

EqualInputs ==
    /\ DOMAIN m_children = {0, 1}
    /\ m_children[0].FunctionValues = m_children[1].FunctionValues

\* C13: when both inputs of a SquareError node hold the same values, under
\* any layout, a forward pass leaves 0 in the output, and the calls
\* ComputeInputPartial(0) and ComputeInputPartial(1) that follow it, with
\* any upstream gradient, change the gradient of neither input.
C13_EqualInputsGiveZero ==
    [][(node = "SquareError" /\ EqualInputs)
       => /\ (StepOf("EvaluateThisNode") /\ ~last'.err) => Get00Element(FunctionValues') = 0
          /\ (evaluated /\ StepOf("ComputeInputPartial") /\ last'.idx \in {0, 1})
                => /\ ~last'.err
                   /\ \A i \in {0, 1} :
                         m_children'[i].GradientValues = m_children[i].GradientValues]_vars

C13_Witness ==
    /\ node = "SquareError" /\ EqualInputs /\ evaluated
    /\ last.op = "ComputeInputPartial" /\ last.idx \in {0, 1} /\ ~last.err
    /\ Get00Element(GradientValues) = 2
    /\ Get00Element(FunctionValues) = 0
    /\ m_pMBLayout.noLabel # {}

\* C14: Validate of a CrossEntropy node fails whenever input 0 is not an
\* InputValue node, whatever the shapes of the inputs; it succeeds only when
\* input 0 is an InputValue node.
C14_FirstInputIsInputValue ==
    [][(node = "CrossEntropy" /\ last'.op = "Validate")
       => /\ m_children[0].OperationName # "InputValue" => last'.err
          /\ ~last'.err => m_children'[0].OperationName = "InputValue"]_vars

C14_Witness ==
    /\ node = "CrossEntropy" /\ last.op = "Validate" /\ last.err
    /\ m_children[0].OperationName = "Times"
    /\ TwoEqualNonEmptyInputs

\* C15: ComputeInputPartial(2) of a DummyCriterion node adds g * d to the
\* gradient of input 2, element by element and in flagged columns too, where
\* g is the upstream gradient and d the function values of input 1; it
\* changes no other tensor.
C15_DummyAddsScaledDerivative ==
    [][(node = "DummyCriterion" /\ StepOf("ComputeInputPartial") /\ last'.idx = 2 /\ ~last'.err)
       => LET g   == Get00Element(GradientValues)
              d   == m_children[1].FunctionValues
              old == m_children[2].GradientValues
              new == m_children'[2].GradientValues
          IN /\ SameShape(new, old)
             /\ \A i \in 0 .. (GetNumRows(old) - 1) : \A j \in 0 .. (GetNumCols(old) - 1) :
                   At(new, i, j) = At(old, i, j) + g * At(d, i, j)
             /\ m_children'[2].FunctionValues = m_children[2].FunctionValues
             /\ m_children'[0] = m_children[0] /\ m_children'[1] = m_children[1]
             /\ FunctionValues' = FunctionValues /\ GradientValues' = GradientValues
             /\ m' = m]_vars

C15_Witness ==
    /\ node = "DummyCriterion" /\ last.op = "ComputeInputPartial" /\ last.idx = 2 /\ ~last.err
    /\ <<0, 1>> \in m_pMBLayout.noLabel
    /\ At(m_children[1].FunctionValues, 0, 1) = 2
    /\ At(m_children[2].GradientValues, 0, 1) = 5 + 2 * Get00Element(GradientValues)

\* C16: after MoveMatricesToDevice(d) every matrix the node owns (the
\* output, the gradient and each scratch matrix) is on device d, and a second
\* MoveMatricesToDevice(d) changes nothing.
C16_EveryOwnedMatrixMoves ==
    [][last'.op = "MoveMatricesToDevice"
       => /\ \A x \in OwnedMatrices(node) : GetDeviceId'[x] = last'.idx
          /\ DoMoveMatricesToDevice(node, GetDeviceId', last'.idx) = GetDeviceId']_vars

CopiedNodes ==
    {"SquareError", "CrossEntropy", "CrossEntropyWithSoftmax", "MatrixL1Reg",
     "NCEBasedCrossEntropyWithSoftmax", "ClassBasedCrossEntropyWithSoftmax", "CRF"}

\* C17: CopyTo with the copyNodeValue flag leaves every scratch matrix of the
\* target equal to the source's, for the SquareError, CrossEntropy,
\* CrossEntropyWithSoftmax, MatrixL1Reg, NCE, class-based and CRF nodes;
\* without the flag the target's scratch matrices are unchanged.
C17_CopyToCopiesScratch ==
    [][(node \in CopiedNodes /\ last'.op = "CopyTo")
       => \A x \in ScratchMatrices(node) :
             nodeP'[x] = IF last'.branch = "copyNodeValue" THEN m[x] ELSE nodeP[x]]_vars

\* The permutations of the parallel-sequence slots of a layout.
SlotPermutations(layout) ==
    {f \in [0 .. (layout.nS - 1) -> 0 .. (layout.nS - 1)] :
        \A a, b \in 0 .. (layout.nS - 1) : f[a] = f[b] => a = b}

PermuteColumns(M, nS, f) ==
    Mat(M.rows, M.cols, LAMBDA i, t : At(M, i, (t \div nS) * nS + f[t % nS]))

\* The same batch with slot f[i] of every time step moved to slot i, in the
\* per-column inputs and in the layout alike.
PermuteSlots(n, s, f) ==
    [s EXCEPT !.m_children = [i \in DOMAIN s.m_children |->
                                 IF i \in BatchInputs(n)
                                 THEN [s.m_children[i] EXCEPT
                                          !.FunctionValues = PermuteColumns(@, s.m_pMBLayout.nS, f)]
                                 ELSE s.m_children[i]],
              !.m_pMBLayout = [s.m_pMBLayout EXCEPT
                                  !.noLabel = {p \in (0 .. (s.m_pMBLayout.nS - 1)) \X (0 .. MaxLength) :
                                                  <<f[p[1]], p[2]>> \in s.m_pMBLayout.noLabel}]]

\* Every per-column input holds whole time steps.
WholeTimeSteps ==
    \A i \in BatchInputs(node) \cap DOMAIN m_children :
        GetNumCols(m_children[i].FunctionValues) % m_pMBLayout.nS = 0

\* C18: the output of a forward pass that completes is the output of the
\* forward pass on the batch with its parallel-sequence slots permuted, the
\* layout permuted alike, for every node and every permutation.
C18_SlotPermutationInvariant ==
    [][(StepOf("EvaluateThisNode") /\ ~last'.err /\ WholeTimeSteps)
       => \A f \in SlotPermutations(m_pMBLayout) :
             LET p == DoEvaluateThisNode(node, PermuteSlots(node, Self, f))
             IN ~p.err /\ p.FunctionValues = FunctionValues']_vars

\* C19: the class-based node keeps the gradient to the soft-max input by a
\* lazy protocol.  Every forward pass that completes sets
\* m_needRecomputeGradientToSoftmaxInput; the first ComputeInputPartial(i),
\* i in {1, 2, 3}, after it computes m_grdToSoftMaxInput from m_softMax and
\* clears the flag; no other step sets the flag again, and while it is clear
\* ComputeInputPartial leaves m_softMax and m_grdToSoftMaxInput as they are
\* (the subtract-one-and-scale step runs at most once per forward pass).
C19_LazyGradientCache ==
    [][node = "ClassBasedCrossEntropyWithSoftmax"
       => LET need  == m.m_needRecomputeGradientToSoftmaxInput
              need1 == m'.m_needRecomputeGradientToSoftmaxInput
          IN /\ (StepOf("EvaluateThisNode") /\ ~last'.err) => need1
             /\ (StepOf("ComputeInputPartial") /\ last'.idx \in {1, 2, 3} /\ evaluated /\ need)
                   => /\ ~need1
                      /\ m'.m_grdToSoftMaxInput = ClassBased_ComputeSoftMaxPartial(Self, last'.ub).m.m_grdToSoftMaxInput
                      /\ m'.m_grdToSoftMaxInput = m'.m_softMax
             /\ (StepOf("ComputeInputPartial") /\ ~need)
                   => /\ ~need1
                      /\ m'.m_softMax = m.m_softMax
                      /\ m'.m_grdToSoftMaxInput = m.m_grdToSoftMaxInput
             /\ ~StepOf("EvaluateThisNode") => (need1 => need)]_vars

C19_Witness ==
    /\ node = "ClassBasedCrossEntropyWithSoftmax" /\ evaluated
    /\ last.op = "ComputeInputPartial" /\ last.idx \in {1, 2, 3} /\ ~last.err
    /\ calls >= 3
    /\ ~m.m_needRecomputeGradientToSoftmaxInput
    /\ GetNumCols(m.m_grdToSoftMaxInput) > 0

\* Column t of the labels has an empty class range and names word 0 of class 0.
CB_NoLabelAt(s, t) ==
    LET l == CB_Label(s, t) IN l.nbr_wrd = 0 /\ l.y_t = 0 /\ l.c_t = 0

\* The columns without a label, in a batch where no other column is flagged.
CB_SkippedColumns ==
    IF node = "ClassBasedCrossEntropyWithSoftmax" /\ DOMAIN m_children = 0 .. 3
    THEN {t \in 0 .. (GetNumCols(m_children[0].FunctionValues) - 1) :
             CB_NoLabelAt(Self, t) /\ MaskedColumns(m_pMBLayout) \subseteq {t}}
    ELSE {}

\* The gradients a forward pass and ComputeInputPartial(i) leave on the batch
\* without column t.
CB_GradientWithout(t, i) ==
    DoComputeInputPartial(node, DoEvaluateThisNode(node, WithoutColumn(node, Self, t)), i, "none")

\* C20: in the class-based node a label column with an empty class range,
\* word index 0 and class index 0 is skipped: the output of a forward pass,
\* and what ComputeInputPartial(1), (2) and (3) add to the input gradients,
\* are what they are on the batch without that column, and the column of the
\* gradients of inputs 1 and 3 is left as it was.  A column with an empty
\* class range and a nonzero word index makes the forward pass fail.
C20_EmptyClassColumn ==
    [][node = "ClassBasedCrossEntropyWithSoftmax"
       => /\ (StepOf("EvaluateThisNode") /\ ~last'.err)
                => \A t \in CB_SkippedColumns :
                      FunctionValues' = DoEvaluateThisNode(node, WithoutColumn(node, Self, t)).FunctionValues
          /\ (StepOf("ComputeInputPartial") /\ ~last'.err /\ evaluated)
                => \A t \in CB_SkippedColumns :
                      LET i == last'.idx
                          w == CB_GradientWithout(t, i)
                      IN /\ ~w.err
                         /\ w.m_children[i].GradientValues
                               = IF i = 2 THEN m_children'[2].GradientValues
                                 ELSE RemoveColumn(m_children'[i].GradientValues, t)
                         /\ i # 2 => ColumnSlice(m_children'[i].GradientValues, t, 1)
                                        = ColumnSlice(m_children[i].GradientValues, t, 1)
          /\ (StepOf("EvaluateThisNode") /\ DOMAIN m_children = 0 .. 3 /\ validated
                /\ \E t \in 0 .. (GetNumCols(m_children[0].FunctionValues) - 1) :
                      CB_Label(Self, t).nbr_wrd = 0 /\ CB_Label(Self, t).y_t # 0)
                => last'.err]_vars

C20_Witness ==
    /\ node = "ClassBasedCrossEntropyWithSoftmax" /\ evaluated
    /\ CB_SkippedColumns = {1}
    /\ last.op = "ComputeInputPartial" /\ last.idx = 2 /\ ~last.err
    /\ m_children[2].GradientValues # Fill(1, 3, 0)
    /\ m_children[2].GradientValues # Fill(1, 3, 5)

\* The columns of the weight matrix that lie in the class range of some
\* label column of the batch.
CB_ClassRanges ==
    UNION {CB_Label(Self, t).lft_bnd .. (CB_Label(Self, t).rgt_bnd - 1) :
              t \in 0 .. (GetNumCols(m_children[0].FunctionValues) - 1)}

\* C21: ComputeInputPartial(2) of the class-based node changes the gradient
\* of the weight matrix only in columns inside the class range of some label
\* column of the batch, and ComputeInputPartial(1) changes only the columns
\* t of the gradient of the hidden input whose class range is not empty.
C21_GradientFrame ==
    [][(node = "ClassBasedCrossEntropyWithSoftmax" /\ StepOf("ComputeInputPartial"))
       => /\ last'.idx = 2
                => \A j \in 0 .. (GetNumCols(m_children[2].GradientValues) - 1) :
                      j \notin CB_ClassRanges
                         => ColumnSlice(m_children'[2].GradientValues, j, 1)
                               = ColumnSlice(m_children[2].GradientValues, j, 1)
          /\ last'.idx = 1
                => \A t \in 0 .. (GetNumCols(m_children[1].GradientValues) - 1) :
                      CB_Label(Self, t).nbr_wrd = 0
                         => ColumnSlice(m_children'[1].GradientValues, t, 1)
                               = ColumnSlice(m_children[1].GradientValues, t, 1)]_vars

C21_Witness ==
    /\ node = "ClassBasedCrossEntropyWithSoftmax" /\ evaluated
    /\ last.op = "ComputeInputPartial" /\ last.idx = 2 /\ ~last.err
    /\ CB_ClassRanges = {0, 1}
    /\ At(m_children[2].GradientValues, 0, 2) \in PriorGradients
    /\ \E j \in {0, 1} : At(m_children[2].GradientValues, 0, j) \notin PriorGradients

\* What ComputeInputPartial(2) leaves in the gradient of the transition
\* scores when the upstream gradient is g.
CRF_TransitionGradientWith(g) ==
    DoComputeInputPartial(node, [Self EXCEPT !.GradientValues = Fill(1, 1, g)], 2, "none")
        .m_children[2].GradientValues

\* C22: what ComputeInputPartial(2) of the CRF node adds to the gradient of
\* the transition scores under the upstream gradient g is g times what it
\* adds under the upstream gradient 1: new - old = g * (new1 - old), written
\* without subtraction as new + g * old = old + g * new1.
C22_TransitionGradientScaled ==
    [][(node = "CRF" /\ StepOf("ComputeInputPartial") /\ last'.idx = 2 /\ ~last'.err)
       => LET g    == FracOfInt(Get00Element(GradientValues))
              old  == m_children[2].GradientValues
              new  == m_children'[2].GradientValues
              new1 == CRF_TransitionGradientWith(1)
          IN \A k \in 0 .. (GetNumRows(old) - 1) : \A j \in 0 .. (GetNumCols(old) - 1) :
                FracAdd(At(new, k, j), FracMul(g, At(old, k, j)))
                   = FracAdd(At(old, k, j), FracMul(g, At(new1, k, j)))]_vars

\* C23: in the backward pass of CrossEntropyWithSoftmax the layout masks the
\* gradient of input 1 only.  After ComputeInputPartial(1) the flagged
\* columns of that gradient are zero and the others hold their previous
\* value plus g * (softmax - label); ComputeInputPartial(0) adds
\* -g * logSoftmax in every column, flagged or not, with the log-softmax the
\* last forward pass stored, which is zero in the flagged columns.
C23_MaskOnLogitsGradientOnly ==
    [][(node = "CrossEntropyWithSoftmax" /\ evaluated /\ StepOf("ComputeInputPartial") /\ ~last'.err)
       => LET g          == Get00Element(GradientValues)
              i0         == last'.idx
              old        == m_children[i0].GradientValues
              new        == m_children'[i0].GradientValues
              logSoftmax == AssignLogSoftmaxOf(m_children[1].FunctionValues)
              softmax    == InplaceExp(logSoftmax)
              label      == m_children[0].FunctionValues
              flagged    == MaskedColumns(m_pMBLayout)
          IN /\ SameShape(new, old)
             /\ m_children'[1 - i0] = m_children[1 - i0]
             /\ \A i \in 0 .. (GetNumRows(old) - 1) : \A j \in 0 .. (GetNumCols(old) - 1) :
                   IF i0 = 1
                   THEN At(new, i, j) = IF j \in flagged THEN 0
                                        ELSE At(old, i, j) + g * (At(softmax, i, j) - At(label, i, j))
                   ELSE /\ At(m.m_logSoftmaxOfRight, i, j)
                              = IF j \in flagged THEN 0 ELSE At(logSoftmax, i, j)
                        /\ At(new, i, j) = At(old, i, j) - g * At(m.m_logSoftmaxOfRight, i, j)]_vars

C23_Witness ==
    /\ node = "CrossEntropyWithSoftmax" /\ evaluated
    /\ last.op = "ComputeInputPartial" /\ last.idx = 1 /\ ~last.err
    /\ MaskedColumns(m_pMBLayout) = {1}
    /\ GetNumCols(m_children[1].GradientValues) = 2
    /\ GetNumCols(m_children[0].GradientValues) = 2
    /\ At(m_children[1].GradientValues, 0, 1) = 0
    /\ At(m_children[0].GradientValues, 0, 1) = 5
    /\ At(m_children[1].GradientValues, 0, 0) # 0

\* C24: the shape errors of a DummyCriterion node are caught by Validate.  A
\* Validate that succeeds found input 0 to be 1x1, and a forward pass on a
\* validated node completes and leaves the single value of input 0 in the
\* output.
C24_DummyShapesCaughtByValidate ==
    [][node = "DummyCriterion"
       => /\ (last'.op = "Validate" /\ ~last'.err)
                => /\ GetNumRows(m_children[0].FunctionValues) = 1
                   /\ GetNumCols(m_children[0].FunctionValues) = 1
          /\ (validated /\ StepOf("EvaluateThisNode"))
                => /\ ~last'.err
                   /\ FunctionValues' = Fill(1, 1, Get00Element(m_children[0].FunctionValues))]_vars

\* C25: Validate of a DummyCriterion node fails when input 0 (the
\* objectives) is not an InputValue node, and fails when input 1 (the
\* derivatives) is not an InputValue node.
C25_DummyInputsAreInputValues ==
    [][(node = "DummyCriterion" /\ last'.op = "Validate")
       => \A i \in {0, 1} : m_children[i].OperationName # "InputValue" => last'.err]_vars

\* The batch cut after its first t columns (labels and hidden input), with
\* the scratch matrices of the whole batch: the loops over time stop at t.
CB_FirstColumns(s, t) ==
    [s EXCEPT !.m_children[0].FunctionValues = ColumnSlice(@, 0, t),
              !.m_children[1].FunctionValues = ColumnSlice(@, 0, t)]

\* The loop of EvaluateThisNodeS when it reaches column t.
CB_ForwardAt(s, t) ==
    CB_ForwardLoop(CB_FirstColumns(s, t), 0,
        [err |-> FALSE, fv |-> 0, sz |-> 0,
         logSoftmax |-> Resize(s.m.m_logSoftmax, 1, CB_TotalWords(s)),
         softMax |-> Resize(s.m.m_softMax, 1, CB_TotalWords(s)),
         clsLogSoftmax |-> AssignLogSoftmaxOf(Inputs(s, 3).FunctionValues)])

\* The loop of ComputeSoftMaxPartial when it reaches column t.
CB_SoftMaxPartialAt(s, t) ==
    CB_SoftMaxPartialLoop(CB_FirstColumns(s, t), 0,
        [err |-> FALSE, sz |-> 0, softMax |-> s.m.m_softMax,
         grd |-> Resize(s.m.m_grdToSoftMaxInput, 1, s.m.m_totalNbrWords)], "stop")

CB_OffsetsAgreeAt(s, t) ==
    LET f == CB_ForwardAt(s, t)
        p == CB_SoftMaxPartialAt(s, t)
        nbr_wrd == IF t < GetNumCols(Inputs(s, 0).FunctionValues) THEN CB_Label(s, t).nbr_wrd ELSE 0
    IN (~f.err /\ ~p.err)
          => /\ f.sz = p.sz
             /\ f.sz = CB_PartialOffset(s, t)
             /\ f.sz + nbr_wrd <= s.m.m_totalNbrWords
             /\ f.sz + nbr_wrd <= GetNumCols(s.m.m_softMax)
             /\ t = GetNumCols(Inputs(s, 0).FunctionValues) => f.sz = s.m.m_totalNbrWords

\* C26: after a forward pass of the class-based node on labels with
\* left <= right in every column, the offset sz at which the forward pass
\* wrote the word soft-max slice of column t is the offset at which
\* ComputeSoftMaxPartial and ComputeInputPartial read it, the slice
\* [sz, sz + right - left) lies inside the 1 x m_totalNbrWords scratch, and
\* the offset after the last column is m_totalNbrWords.
C26_PackedOffsetsAgree ==
    (/\ node = "ClassBasedCrossEntropyWithSoftmax" /\ evaluated
     /\ \A t \in 0 .. (GetNumCols(m_children[0].FunctionValues) - 1) : CB_Label(Self, t).nbr_wrd >= 0)
    => \A t \in 0 .. GetNumCols(m_children[0].FunctionValues) : CB_OffsetsAgreeAt(Self, t)

C26_Witness ==
    /\ node = "ClassBasedCrossEntropyWithSoftmax" /\ evaluated
    /\ last.op = "ComputeInputPartial" /\ last.idx \in {1, 2, 3} /\ ~last.err
    /\ CB_Label(Self, 0).nbr_wrd = 2 /\ CB_Label(Self, 1).nbr_wrd = 1
    /\ ~CB_ForwardAt(Self, 2).err /\ CB_ForwardAt(Self, 1).sz = 2 /\ CB_ForwardAt(Self, 2).sz = 3
    /\ ~CB_SoftMaxPartialAt(Self, 2).err /\ CB_SoftMaxPartialAt(Self, 2).sz = 3
    /\ m.m_totalNbrWords = 3

\* The class range of label column t holds the word index of that column.
CB_WordIndexInRange(s, t) ==
    LET l == CB_Label(s, t)
    IN 0 <= l.y_t - l.lft_bnd /\ l.y_t - l.lft_bnd < l.nbr_wrd

\* C27: a pass of the class-based node that completes without an error has
\* the word index of every label column it does not skip inside that column's
\* class range, 0 <= y_t - lft_bnd < rgt_bnd - lft_bnd: the forward pass for
\* every column with a non-empty range that the sequence mask does not flag,
\* ComputeSoftMaxPartial for every column with a non-empty range.
C27_WordIndexInsideClassRange ==
    [][(node = "ClassBasedCrossEntropyWithSoftmax" /\ ~last'.err)
       => /\ StepOf("EvaluateThisNode")
             => \A t \in 0 .. GetNumCols(m_children[1].FunctionValues) - 1 :
                   (CB_Label(Self, t).nbr_wrd # 0 /\ ~CB_IsMasked(Self, t))
                   => CB_WordIndexInRange(Self, t)
          /\ (StepOf("ComputeInputPartial") /\ last'.idx \in {1, 2, 3}
              /\ m.m_needRecomputeGradientToSoftmaxInput)
             => \A t \in 0 .. GetNumCols(m_children[1].FunctionValues) - 1 :
                   CB_Label(Self, t).nbr_wrd # 0 => CB_WordIndexInRange(Self, t)]_vars

\* C28: in every state reached from construction, the class-based node's
\* cache flag says "valid" (m_needRecomputeGradientToSoftmaxInput is false)
\* only if a forward pass has completed before (the cached gradient is then
\* the one ComputeSoftMaxPartial made after it); a ComputeInputPartial never
\* finds the flag "valid" before any forward pass.
C28_ValidCacheFollowsForward ==
    (node = "ClassBasedCrossEntropyWithSoftmax" /\ ~m.m_needRecomputeGradientToSoftmaxInput)
    => evaluated

\* C29: when ComputeInputPartial(i), i in {1, 2, 3}, of the NCE node passes
\* its guards and computes a derivative right after a forward pass, that
\* forward pass took the nce training branch (the one that refreshes
\* m_ncePrediction); a forward pass in softmax or unnormalized form is never
\* followed by a derivative.
C29_DerivativeFollowsNceForward ==
    [][(/\ node = "NCEBasedCrossEntropyWithSoftmax"
        /\ StepOf("ComputeInputPartial") /\ last'.idx \in {1, 2, 3}
        /\ ~NCE_NoPartial(Self, last'.idx)
        /\ last.op = "EvaluateThisNode" /\ ~last.err)
       => last.branch = "nce"]_vars

\* C30: in a CRF batch of N >= 1 parallel sequences, the start label that
\* ComputeInputPartial(2) passes to the transition-gradient computation for
\* slice i is the first label of that same slice i, as the preceding forward
\* pass determined it, for every i.
C30_StartLabelOfOwnSlice ==
    [][(/\ node = "CRF" /\ evaluated
        /\ last.op = "EvaluateThisNode" /\ ~last.err
        /\ StepOf("ComputeInputPartial") /\ last'.idx = 2 /\ ~last'.err)
       => LET nstep == GetNumCols(m.mAlpha) \div m_pMBLayout.nS
          IN \A i \in 0 .. m_pMBLayout.nS - 1 :
                CRF_StartLblOf(Self, i)
                    = CRF_LabelAt(ColumnSlice(m_children[0].FunctionValues, i * nstep, nstep), 0)]_vars
====
